---- MODULE Spec2Model ----
(***************************************************************************)
(* A model of the MATLAB front end of sphinxcontrib-matlabdomain           *)
(* (src/sphinxcontrib/mat_types.py, regex.py, mat_documenters.py).         *)
(*                                                                         *)
(* Text is a sequence of one-character strings, a token is a record        *)
(* [k |-> kind, v |-> text] (the pygments pair (kind, literal text)), a    *)
(* token generator is a token sequence together with the index of the next *)
(* token it will yield.  A Python exception is an outcome: every operator  *)
(* that models a function returns a record whose field exc names the       *)
(* exception that left the function ("none" when it returned).             *)
(***************************************************************************)
EXTENDS Integers, Sequences, FiniteSets, TLC

VARIABLES
    lit_tks,    \* tks_code_literal: the token stream handed to it
    lit_res,    \* tks_code_literal: its outcome, NotRun before the call
    fn_tks,     \* MatFunction: the tokens of the file after `function`
    fn_res,     \* MatFunction: the outcome of MatFunction(name, modname, tks)
    mf_code,    \* parse_mfile: the text of the file
    mf_res,     \* parse_mfile: the entity it built, NotRun before the call
    im_fs,      \* the build: the .m files of the source tree, by path
    im_w,       \* the build: the dictionary `modules` and the parses so far
    im_last,    \* the build: the last call and its outcome
    cl_in,      \* MatClass: the declarations of the class file
    cl_res,     \* MatClass: the outcome of MatClass(name, modname, tokens)
    ds_in,      \* tks_docstring: the lines of the comment block and the header
    ds_res,     \* tks_docstring: its outcome, NotRun before the call
    ds_again,   \* tks_docstring: its outcome on the block written from ds_res
    pp_lines,   \* regex.py: the lines of the text of the file
    pp_once,    \* regex.py: code_preprocess of the text, None before the call
    pp_twice,   \* regex.py: code_preprocess of pp_once
    pp_fix      \* regex.py: code_fix_function_signatures of the text

vars_lit == <<lit_tks, lit_res>>
vars_fn == <<fn_tks, fn_res>>
vars_mf == <<mf_code, mf_res>>
vars_im == <<im_fs, im_w, im_last>>
vars_cl == <<cl_in, cl_res>>
vars_ds == <<ds_in, ds_res, ds_again>>
vars_pp == <<pp_lines, pp_once, pp_twice, pp_fix>>
vars == <<lit_tks, lit_res, fn_tks, fn_res, mf_code, mf_res, im_fs, im_w, im_last,
          cl_in, cl_res, ds_in, ds_res, ds_again, pp_lines, pp_once, pp_twice, pp_fix>>

NotRun == [exc |-> "notrun"]

(***************************************************************************)
(* Bounds of the model.                                                    *)
(***************************************************************************)
MaxLitLen == 4
MaxDocLines == 2
MaxFileLines == 3
MaxParses == 2

(***************************************************************************)
(* Python str helpers, on sequences of characters.                         *)
(***************************************************************************)
RECURSIVE LStrip(_, _)
LStrip(s, chars) ==
    IF s # <<>> /\ Head(s) \in chars THEN LStrip(Tail(s), chars) ELSE s

RECURSIVE RStrip(_, _)
RStrip(s, chars) ==
    IF s # <<>> /\ s[Len(s)] \in chars
    THEN RStrip(SubSeq(s, 1, Len(s) - 1), chars)
    ELSE s

Strip(s, chars) == LStrip(RStrip(s, chars), chars)

\* str.strip() / str.rstrip() with no argument strip whitespace
WhiteChars == {" ", "\t", "\n"}

Contains(s, c) == \E i \in 1..Len(s) : s[i] = c

\* s.split(c): the pieces of s between the occurrences of the character c
RECURSIVE SplitAcc(_, _, _, _)
SplitAcc(s, c, cur, acc) ==
    IF s = <<>> THEN Append(acc, cur)
    ELSE IF Head(s) = c THEN SplitAcc(Tail(s), c, <<>>, Append(acc, cur))
    ELSE SplitAcc(Tail(s), c, Append(cur, Head(s)), acc)

Split(s, c) == SplitAcc(s, c, <<>>, <<>>)

\* sep.join(parts), sep a text
RECURSIVE Join(_, _)
Join(parts, sep) ==
    IF parts = <<>> THEN <<>>
    ELSE IF Len(parts) = 1 THEN parts[1]
    ELSE parts[1] \o sep \o Join(Tail(parts), sep)

Last(s) == s[Len(s)]

(***************************************************************************)
(* Tokens.  NoToken is Python's None, what next(tks, None) gives at the    *)
(* end of the stream.                                                      *)
(***************************************************************************)
Tok(k, v) == [k |-> k, v |-> v]
NoToken == [k |-> "None", v |-> <<>>]

IsNewlineWs(t) == t.k = "Whitespace" /\ Contains(t.v, "\n")

\* the skip predicate of tks_next
Skipped(t, skip_newline, skip_semicolon, skip_comment) ==
    \/ t.k = "Whitespace" /\ (skip_newline \/ ~Contains(t.v, "\n"))
    \/ t = Tok("Punctuation", <<";">>) /\ skip_semicolon
    \/ t.k = "Comment" /\ skip_comment

\* tks_next: the next token the predicates do not skip, None at the end.
\* pos is the index of the next token the generator yields.
RECURSIVE tks_next(_, _, _, _, _)
tks_next(tks, pos, skip_newline, skip_semicolon, skip_comment) ==
    IF pos > Len(tks) THEN [tok |-> NoToken, pos |-> pos]
    ELSE IF Skipped(tks[pos], skip_newline, skip_semicolon, skip_comment)
         THEN tks_next(tks, pos + 1, skip_newline, skip_semicolon, skip_comment)
         ELSE [tok |-> tks[pos], pos |-> pos + 1]

(***************************************************************************)
(* tks_code_literal                                                        *)
(***************************************************************************)
Openers == {"(", "[", "{"}
Closers == {")", "]", "}"}
ClosingOf(c) == IF c = "(" THEN ")" ELSE IF c = "[" THEN "]" ELSE "}"
IsPunct(t, set) == t.k = "Punctuation" /\ Len(t.v) = 1 /\ t.v[1] \in set

\* the three conditions any of which ends the literal at depth zero
StatementEnd(t) ==
    \/ IsPunct(t, {","} \cup Closers)
    \/ IsNewlineWs(t)
    \/ t.k = "Comment"

\* One evaluation of the while loop of tks_code_literal and all that follow.
\* token[0] on None raises TypeError; a closer that is not the expected one
\* raises IndexError.
RECURSIVE LiteralLoop(_, _, _, _, _)
LiteralLoop(tks, pos, token, expected_close, literal) ==
    IF expected_close = <<>> /\ token = NoToken
    THEN [exc |-> "TypeError", literal |-> literal, tok |-> token, pos |-> pos]
    ELSE IF expected_close = <<>> /\ StatementEnd(token)
    THEN [exc |-> "none", literal |-> literal, tok |-> token, pos |-> pos]
    ELSE IF token = NoToken
    THEN [exc |-> "TypeError", literal |-> literal, tok |-> token, pos |-> pos]
    ELSE IF IsPunct(token, Closers) /\ token.v[1] # Last(expected_close)
    THEN [exc |-> "IndexError", literal |-> literal, tok |-> token, pos |-> pos]
    ELSE LET stack == IF IsPunct(token, Openers)
                      THEN Append(expected_close, ClosingOf(token.v[1]))
                      ELSE IF IsPunct(token, Closers)
                      THEN SubSeq(expected_close, 1, Len(expected_close) - 1)
                      ELSE expected_close
             nx == tks_next(tks, pos, FALSE, FALSE, FALSE)
         IN LiteralLoop(tks, nx.pos, nx.tok, stack, literal \o token.v)

\* tks_code_literal(tks) with token = None: the first token is fetched
tks_code_literal(tks, pos) ==
    LET nx == tks_next(tks, pos, FALSE, FALSE, FALSE)
    IN LiteralLoop(tks, nx.pos, nx.tok, <<>>, <<>>)

\* tks_code_literal(tks, token) with a starting token
tks_code_literal_from(tks, pos, token) ==
    LiteralLoop(tks, pos, token, <<>>, <<>>)

(***************************************************************************)
(* tks_docstring.  Its result is the pair (docstring, token), or None when *)
(* the starting token is no comment (the function then falls off its end). *)
(* exc = "Hang" stands for the loop at lines 418-421 never ending.         *)
(***************************************************************************)
NoIndent == [set |-> FALSE, v |-> <<>>]
SomeIndent(v) == [set |-> TRUE, v |-> v]

\* The loop at lines 403-413, from its test on.
RECURSIVE DocLoop(_, _, _, _, _)
DocLoop(tks, pos, token, indent, doc_lines) ==
    IF token = NoToken \/ token.k # "Comment"
    THEN [exc |-> "none", tok |-> token, pos |-> pos, lines |-> doc_lines]
    ELSE
      LET comment == RStrip(LStrip(token.v, {"%"}), WhiteChars)
          lines == Append(doc_lines, comment)
          nx == tks_next(tks, pos, FALSE, TRUE, FALSE)
      IN IF nx.tok = NoToken
         THEN [exc |-> "TypeError", tok |-> nx.tok, pos |-> nx.pos, lines |-> lines]
         ELSE IF IsNewlineWs(nx.tok)
         THEN LET line_indent == Last(Split(nx.tok.v, "\n"))
              IN IF indent.set /\ indent.v # line_indent
                 THEN LET br == tks_next(tks, nx.pos, TRUE, TRUE, TRUE)
                      IN [exc |-> "none", tok |-> br.tok, pos |-> br.pos, lines |-> lines]
                 ELSE LET n2 == tks_next(tks, nx.pos, FALSE, TRUE, FALSE)
                      IN DocLoop(tks, n2.pos, n2.tok, SomeIndent(line_indent), lines)
         ELSE DocLoop(tks, nx.pos, nx.tok, indent, lines)

AllSpaceAt(doc_lines, n) ==
    \A i \in 1..Len(doc_lines) :
        doc_lines[i] # <<>> => doc_lines[i][n + 1] = " "

\* The loop at lines 418-421.  Every non-empty line ends in a character that
\* is no blank (rstrip), so the loop ends when there is one; with none,
\* all([]) is True for ever.
RECURSIVE NumLeadingSpace(_, _)
NumLeadingSpace(doc_lines, n) ==
    IF AllSpaceAt(doc_lines, n) THEN NumLeadingSpace(doc_lines, n + 1) ELSE n

DocJoin(doc_lines, n) ==
    Join([i \in 1..Len(doc_lines) |->
            IF Len(doc_lines[i]) > n + 1
            THEN SubSeq(doc_lines[i], n + 1, Len(doc_lines[i]))
            ELSE <<>>],
         <<"\n">>)

\* lines 416-427, lp being what the loop at lines 403-413 left
DocResult(lp, header) ==
    IF lp.exc # "none"
    THEN [exc |-> lp.exc, ret |-> "raise", docstring |-> <<>>, tok |-> lp.tok, pos |-> lp.pos]
    ELSE IF lp.lines = <<>>
    THEN [exc |-> "none", ret |-> "None", docstring |-> <<>>, tok |-> lp.tok, pos |-> lp.pos]
    ELSE IF \A i \in 1..Len(lp.lines) : lp.lines[i] = <<>>
    THEN [exc |-> "Hang", ret |-> "raise", docstring |-> <<>>, tok |-> lp.tok, pos |-> lp.pos]
    ELSE [exc |-> "none", ret |-> "pair",
          docstring |-> (IF header # <<>> THEN header \o <<" ">> ELSE <<>>)
                        \o DocJoin(lp.lines, NumLeadingSpace(lp.lines, 0)),
          tok |-> lp.tok, pos |-> lp.pos]

tks_docstring(tks, pos, token, header) ==
    DocResult(DocLoop(tks, pos, token, NoIndent, <<>>), header)

(***************************************************************************)
(* propertyLine.parse_tokens (argumentLine inherits it unchanged).  An     *)
(* optional field is a sequence: <<>> for None, <<x>> for the value x.     *)
(* The function is written as its successive steps, each handed the        *)
(* fields set so far (ln) and the token in hand (t.tok, the generator at   *)
(* t.pos).                                                                 *)
(***************************************************************************)
DigitVal(c) ==
    CASE c = "0" -> 0 [] c = "1" -> 1 [] c = "2" -> 2 [] c = "3" -> 3
      [] c = "4" -> 4 [] c = "5" -> 5 [] c = "6" -> 6 [] c = "7" -> 7
      [] c = "8" -> 8 [] c = "9" -> 9

\* int(text) for a text of decimal digits
RECURSIVE IntOf(_)
IntOf(s) ==
    IF s = <<>> THEN 0 ELSE 10 * IntOf(SubSeq(s, 1, Len(s) - 1)) + DigitVal(Last(s))

\* lines 452-455
RECURSIVE SizeLoop(_, _, _, _)
SizeLoop(tks, pos, token, size) ==
    IF token = NoToken \/ token = Tok("Punctuation", <<")">>)
    THEN [tok |-> token, pos |-> pos, size |-> size]
    ELSE LET nx == tks_next(tks, pos, FALSE, TRUE, TRUE)
         IN SizeLoop(tks, nx.pos, nx.tok,
                     IF token.k = "Integer" THEN Append(size, IntOf(token.v)) ELSE size)

\* lines 471-481: the loop, and the else clause that runs when it ends
ValidatorsDone(tks, pos, vldtrs) ==
    LET nx == tks_next(tks, pos, FALSE, TRUE, FALSE)
    IN [exc |-> "none", tok |-> nx.tok, pos |-> nx.pos, vldtrs |-> vldtrs]

RECURSIVE ValidatorLoop(_, _, _, _)
ValidatorGot(tks, vldtrs, r) ==
    IF r.exc # "none"
    THEN [exc |-> r.exc, tok |-> r.tok, pos |-> r.pos, vldtrs |-> vldtrs]
    ELSE ValidatorLoop(tks, r.pos, r.tok, Append(vldtrs, r.literal))

ValidatorLoop(tks, pos, token, vldtrs) ==
    IF token = NoToken \/ token = Tok("Punctuation", <<"}">>)
    THEN ValidatorsDone(tks, pos, vldtrs)
    ELSE ValidatorGot(tks, vldtrs, tks_code_literal(tks, pos))

NewLine(name) ==
    [exc |-> "none", name |-> name, size |-> <<>>, type |-> <<>>, vldtrs |-> <<>>,
     default |-> <<>>, docstring |-> <<>>, tok |-> NoToken, pos |-> 0]

LineFail(ln, exc, pos) == [ln EXCEPT !.exc = exc, !.pos = pos]
LineDone(ln, t) == [ln EXCEPT !.tok = t.tok, !.pos = t.pos]

\* lines 495-500, d being what tks_docstring gave
PL_NewlineDoc(ln, d) ==
    IF d.exc # "none" THEN LineFail(ln, d.exc, d.pos)
    ELSE LineDone([ln EXCEPT !.docstring = Join(Split(d.docstring, "\n"), <<" ">>)], d)

\* lines 493-500
PL_AfterDirect(ln, tks, t) ==
    IF t.tok = NoToken THEN LineFail(ln, "TypeError", t.pos)
    ELSE IF t.tok.k = "Comment"
    THEN PL_NewlineDoc(ln, tks_docstring(tks, t.pos, t.tok, ln.docstring))
    ELSE LineDone(ln, t)

\* lines 491-493
PL_Direct(ln, tks, t) ==
    IF t.tok = NoToken THEN LineFail(ln, "TypeError", t.pos)
    ELSE PL_AfterDirect(
           [ln EXCEPT !.docstring = IF t.tok.k = "Comment"
                                    THEN Strip(t.tok.v, {"%", " "}) ELSE <<>>],
           tks, tks_next(tks, t.pos, TRUE, TRUE, FALSE))

\* lines 486-489, df being what tks_code_literal gave (or the token in hand)
PL_DefaultGot(ln, tks, hasD, df) ==
    IF df.exc # "none" THEN LineFail(ln, df.exc, df.pos)
    ELSE PL_Direct([ln EXCEPT !.default = IF hasD THEN <<df.literal>> ELSE <<>>],
                   tks, df)

PL_Default(ln, tks, t) ==
    PL_DefaultGot(ln, tks, t.tok = Tok("Punctuation", <<"=">>),
                  IF t.tok = Tok("Punctuation", <<"=">>)
                  THEN tks_code_literal(tks, t.pos)
                  ELSE [exc |-> "none", literal |-> <<>>, tok |-> t.tok, pos |-> t.pos])

\* lines 468-483
PL_ValidatorsGot(ln, tks, hasV, vl) ==
    IF vl.exc # "none" THEN LineFail(ln, vl.exc, vl.pos)
    ELSE PL_Default([ln EXCEPT !.vldtrs = IF hasV THEN <<vl.vldtrs>> ELSE <<>>],
                    tks, vl)

PL_Validators(ln, tks, t) ==
    PL_ValidatorsGot(ln, tks, t.tok = Tok("Punctuation", <<"{">>),
                     IF t.tok = Tok("Punctuation", <<"{">>)
                     THEN ValidatorLoop(tks, t.pos, t.tok, <<>>)
                     ELSE [exc |-> "none", tok |-> t.tok, pos |-> t.pos, vldtrs |-> <<>>])

\* lines 459-466
PL_Type(ln, tks, t) ==
    IF t.tok = NoToken THEN LineFail(ln, "TypeError", t.pos)
    ELSE PL_Validators(
           [ln EXCEPT !.type = IF t.tok.k \in {"Name.Builtin", "Name"}
                               THEN <<t.tok.v>> ELSE <<>>],
           tks,
           IF t.tok.k \in {"Name.Builtin", "Name"}
           THEN tks_next(tks, t.pos, FALSE, TRUE, FALSE) ELSE t)

\* lines 448-459
PL_SizeGot(ln, tks, hasSize, sz) ==
    PL_Type([ln EXCEPT !.size = IF hasSize THEN <<sz.size>> ELSE <<>>],
            tks, tks_next(tks, sz.pos, FALSE, TRUE, FALSE))

SizeFrom(tks, f) == SizeLoop(tks, f.pos, f.tok, <<>>)

PL_Size(ln, tks, t) ==
    PL_SizeGot(ln, tks, t.tok = Tok("Punctuation", <<"(">>),
               IF t.tok = Tok("Punctuation", <<"(">>)
               THEN SizeFrom(tks, tks_next(tks, t.pos, FALSE, TRUE, TRUE))
               ELSE [tok |-> t.tok, pos |-> t.pos, size |-> <<>>])

propertyLine_parse_tokens(name, tks, pos) ==
    PL_Size(NewLine(name), tks, tks_next(tks, pos, FALSE, TRUE, FALSE))

\* what propertyLine.to_dict keeps of a parsed line
LineEntry(r) ==
    [name |-> r.name, size |-> r.size, type |-> r.type, vldtrs |-> r.vldtrs,
     default |-> r.default, docstring |-> r.docstring]

(***************************************************************************)
(* attributeBlock.__init__ and functionArgumentsBlock.                     *)
(***************************************************************************)
\* functionArgumentsBlock.attribute_types: all three are bool
ArgBlockAttributeTypes == {<<"I", "n", "p", "u", "t">>,
                           <<"O", "u", "t", "p", "u", "t">>,
                           <<"R", "e", "p", "e", "a", "t", "i", "n", "g">>}

\* lines 540-550
RECURSIVE AttrLoop(_, _, _, _, _)
AttrLoop(tks, pos, token, types, attributes) ==
    IF token = NoToken \/ token = Tok("Punctuation", <<")">>)
    THEN [attributes |-> attributes, pos |-> pos]
    ELSE LET nx == tks_next(tks, pos, FALSE, TRUE, TRUE)
         IN AttrLoop(tks, nx.pos, nx.tok, types,
                     IF token.k = "Name" /\ token.v \in types
                     THEN attributes \cup {token.v} ELSE attributes)

AttrFrom(tks, f, types) == AttrLoop(tks, f.pos, f.tok, types, {})

\* lines 535-539
AttrOpen(tks, t, types) ==
    IF t.tok = Tok("Punctuation", <<"(">>)
    THEN AttrFrom(tks, tks_next(tks, t.pos, FALSE, TRUE, TRUE), types)
    ELSE [attributes |-> {}, pos |-> t.pos]

\* the set of attributes recorded True, and the generator's position after
attributeBlock_init(tks, pos, types) ==
    AttrOpen(tks, tks_next(tks, pos, FALSE, TRUE, TRUE), types)

InSeq(x, s) == \E i \in 1..Len(s) : s[i] = x

\* functionArgumentsBlock.parse_tokens, lines 576-588, from the loop test on
RECURSIVE ArgLinesLoop(_, _, _, _, _)
ArgLineGot(tks, arg_list, arguments, r) ==
    IF r.exc # "none"
    THEN [exc |-> r.exc, arguments |-> arguments, pos |-> r.pos]
    ELSE ArgLinesLoop(tks, r.pos, r.tok, arg_list, Append(arguments, LineEntry(r)))

ArgLinesLoop(tks, pos, token, arg_list, arguments) ==
    IF token = NoToken \/ token = Tok("Keyword", <<"e", "n", "d">>)
    THEN [exc |-> "none", arguments |-> arguments, pos |-> pos]
    ELSE IF token.k = "Name"
    THEN IF InSeq(token.v, arg_list)
         THEN ArgLineGot(tks, arg_list, arguments,
                         propertyLine_parse_tokens(token.v, tks, pos))
         ELSE [exc |-> "IndexError", arguments |-> arguments, pos |-> pos]
    ELSE LET nx == tks_next(tks, pos, TRUE, TRUE, TRUE)
         IN ArgLinesLoop(tks, nx.pos, nx.tok, arg_list, arguments)

ArgLinesFrom(tks, t, arg_list) == ArgLinesLoop(tks, t.pos, t.tok, arg_list, <<>>)

functionArgumentsBlock_parse_tokens(tks, pos, arg_list) ==
    ArgLinesFrom(tks, tks_next(tks, pos, TRUE, TRUE, TRUE), arg_list)

\* lines 564-567
BlockIsInput(attributes) ==
    \/ <<"I", "n", "p", "u", "t">> \in attributes
    \/ <<"O", "u", "t", "p", "u", "t">> \notin attributes

BlockResult(isInput, r) ==
    [exc |-> r.exc, type |-> IF isInput THEN "Input" ELSE "Output",
     arguments |-> r.arguments, pos |-> r.pos]

BlockParse(tks, ab, args, retv) ==
    BlockResult(BlockIsInput(ab.attributes),
                functionArgumentsBlock_parse_tokens(
                    tks, ab.pos,
                    IF BlockIsInput(ab.attributes) THEN args ELSE retv))

\* functionArgumentsBlock.__init__, lines 562-572
functionArgumentsBlock_init(tks, pos, args, retv) ==
    BlockParse(tks, attributeBlock_init(tks, pos, ArgBlockAttributeTypes), args, retv)

(***************************************************************************)
(* MatFunction.__init__, on the generator parse_mfile hands it (the        *)
(* `function` keyword already taken).  self.warning does not exist on      *)
(* MatFunction (the method is warning_msg): calling it raises              *)
(* AttributeError before anything is logged.                               *)
(***************************************************************************)
StripAll(parts) == [i \in 1..Len(parts) |-> Strip(parts[i], WhiteChars)]

NewFunction(name) ==
    [exc |-> "none", name |-> name, docstring |-> <<>>, retv |-> <<>>,
     retv_va |-> <<>>, args |-> <<>>, args_va |-> <<>>, warned |-> FALSE]

Raise(f, exc) == [f EXCEPT !.exc = exc]

\* self.warning(...): AttributeError, there is no such method
self_warning(f) == Raise(f, "AttributeError")

ArgNames(va) == [i \in 1..Len(va) |-> va[i].name]
SeqSet(q) == {q[i] : i \in 1..Len(q)}

\* lines 742-753: the two consistency warnings, through logger.warning
CountWarning(f) ==
    \/ f.args_va # <<>> /\ (Len(f.args) # Len(f.args_va)
                            \/ SeqSet(f.args) # SeqSet(ArgNames(f.args_va)))
    \/ f.retv_va # <<>> /\ (Len(f.retv) # Len(f.retv_va)
                            \/ SeqSet(f.retv) # SeqSet(ArgNames(f.retv_va)))

\* lines 731-740, from the loop test on, then lines 742-758
RECURSIVE ArgBlocksLoop(_, _, _, _)
ArgBlocksFrom(f, tks, t) == ArgBlocksLoop(f, tks, t.pos, t.tok)

ArgBlockGot(f, tks, b) ==
    IF b.exc # "none" THEN Raise(f, b.exc)
    ELSE ArgBlocksFrom(IF b.type = "Input"
                       THEN [f EXCEPT !.args_va = @ \o b.arguments]
                       ELSE [f EXCEPT !.retv_va = @ \o b.arguments],
                       tks, tks_next(tks, b.pos, TRUE, TRUE, TRUE))

ArgBlocksLoop(f, tks, pos, token) ==
    IF token = Tok("Name.Builtin", <<"a", "r", "g", "u", "m", "e", "n", "t", "s">>)
    THEN ArgBlockGot(f, tks, functionArgumentsBlock_init(tks, pos, f.args, f.retv))
    ELSE [f EXCEPT !.warned = CountWarning(f)]

\* line 727, d being what tks_docstring gave
FunctionDocGot(f, tks, d) ==
    IF d.exc # "none" THEN Raise(f, d.exc)
    ELSE IF d.ret = "None" THEN Raise(f, "TypeError")
    ELSE ArgBlocksLoop([f EXCEPT !.docstring = d.docstring], tks, d.pos, d.tok)

DocFrom(tks, t) == tks_docstring(tks, t.pos, t.tok, <<>>)

\* lines 724-727, t being the token in hand after the argument list
FunctionDoc(f, tks, t) ==
    FunctionDocGot(f, tks, DocFrom(tks, tks_next(tks, t.pos, TRUE, TRUE, FALSE)))

\* lines 718-722
FunctionClose(f, tks, t) ==
    IF t.tok = Tok("Punctuation", <<")">>)
    THEN FunctionDoc(f, tks, tks_next(tks, t.pos, FALSE, TRUE, TRUE))
    ELSE self_warning(f)

\* lines 710-716
FunctionArgList(f, tks, t) ==
    IF t.tok = NoToken THEN Raise(f, "TypeError")
    ELSE IF t.tok.k = "Text"
    THEN FunctionClose([f EXCEPT !.args = StripAll(Split(t.tok.v, ","))],
                       tks, tks_next(tks, t.pos, FALSE, TRUE, TRUE))
    ELSE self_warning(f)

\* lines 707-709
FunctionArgs(f, tks, t) ==
    IF t.tok = Tok("Punctuation", <<"(">>)
    THEN FunctionArgList(f, tks, tks_next(tks, t.pos, FALSE, TRUE, TRUE))
    ELSE FunctionDoc(f, tks, t)

\* lines 699-707; a MatFunction is never a MatMethod (MatMethod derives from
\* MatFunctionOld), so a differing name goes to self.warning
FunctionName(f, func_name, tks, pos) ==
    IF f.exc # "none" THEN f
    ELSE IF func_name # f.name THEN self_warning(f)
    ELSE FunctionArgs(f, tks, tks_next(tks, pos, FALSE, TRUE, TRUE))

\* lines 678-683, t being the token after `=`
SingleReturnName(f, t) ==
    IF t.tok = NoToken THEN [f |-> Raise(f, "TypeError"), func_name |-> <<>>, pos |-> t.pos]
    ELSE IF t.tok.k = "Name.Function"
    THEN [f |-> f, func_name |-> t.tok.v, pos |-> t.pos]
    ELSE [f |-> self_warning(f), func_name |-> <<>>, pos |-> t.pos]

\* lines 672-678, t being the token after the return value
SingleReturnEq(f, tks, t) ==
    IF t.tok # Tok("Punctuation", <<"=">>)
    THEN [f |-> self_warning(f), func_name |-> <<>>, pos |-> t.pos]
    ELSE SingleReturnName(f, tks_next(tks, t.pos, FALSE, TRUE, TRUE))

\* lines 687-694
SplitReturn(f, ret_func, pos) ==
    IF Len(ret_func) = 1
    THEN [f |-> f, func_name |-> Strip(ret_func[1], WhiteChars), pos |-> pos]
    ELSE [f |-> [f EXCEPT !.retv = StripAll(Split(
                     Strip(ret_func[1], {"[", " ", "]"}), ","))],
          func_name |-> Strip(ret_func[2], WhiteChars), pos |-> pos]

\* lines 669-697: the return values and the declared name
FunctionReturn(f, tks, t) ==
    IF t.tok = NoToken THEN [f |-> Raise(f, "TypeError"), func_name |-> <<>>, pos |-> t.pos]
    ELSE IF t.tok.k = "Text"
    THEN SingleReturnEq([f EXCEPT !.retv = <<Strip(t.tok.v, {"[", " ", "]"})>>],
                        tks, tks_next(tks, t.pos, FALSE, TRUE, TRUE))
    ELSE IF t.tok.k = "Name.Function"
    THEN SplitReturn(f, Split(t.tok.v, "="), t.pos)
    ELSE [f |-> self_warning(f), func_name |-> <<>>, pos |-> t.pos]

FunctionAfterReturn(tks, r) == FunctionName(r.f, r.func_name, tks, r.pos)

\* lines 651-758
MatFunction_init(name, tks, pos) ==
    FunctionAfterReturn(tks, FunctionReturn(NewFunction(name), tks,
                                            tks_next(tks, pos, FALSE, TRUE, TRUE)))

(***************************************************************************)
(* regex.py: the preprocessing of the text of a file.  A regular           *)
(* expression is modelled by the match the re module finds for it.         *)
(***************************************************************************)
\* \w, for the characters of ASCII
WordChars ==
    {"a", "b", "c", "d", "e", "f", "g", "h", "i", "j", "k", "l", "m", "n", "o", "p", "q", "r", "s", "t", "u", "v", "w", "x", "y", "z"}
    \cup {"A", "B", "C", "D", "E", "F", "G", "H", "I", "J", "K", "L", "M", "N", "O", "P", "Q", "R", "S", "T", "U", "V", "W", "X", "Y", "Z"}
    \cup {"0", "1", "2", "3", "4", "5", "6", "7", "8", "9", "_"}
\* [ \t]
BlankChars == {" ", "\t"}
\* [ \t.\n]
SepChars == {" ", "\t", ".", "\n"}
\* [\w, \t.\n]
ListChars == WordChars \cup SepChars \cup {","}

SetMax(S) == CHOOSE x \in S : \A y \in S : y <= x
SetMin(S) == CHOOSE x \in S : \A y \in S : x <= y

\* the index after the longest run of characters of cs that starts at i
SkipRun(s, i, cs) ==
    SetMin({j \in i..(Len(s) + 1) : j > Len(s) \/ s[j] \notin cs})

\* s has the text w at index i
HasAt(s, i, w) ==
    i >= 1 /\ i + Len(w) - 1 <= Len(s) /\ SubSeq(s, i, i + Len(w) - 1) = w

EndsWith(s, w) == HasAt(s, Len(s) - Len(w) + 1, w)

\* str.replace(old, new) from index i on, old not empty and Q the places at
\* or after i where old stands
RECURSIVE Replace(_, _, _, _)
ReplaceAt(s, i, old, new, Q) ==
    IF Q = {} THEN SubSeq(s, i, Len(s))
    ELSE SubSeq(s, i, SetMin(Q) - 1) \o new
         \o Replace(s, SetMin(Q) + Len(old), old, new)

Replace(s, i, old, new) ==
    ReplaceAt(s, i, old, new, {q \in i..Len(s) : HasAt(s, q, old)})

\* the index of the last character of the line that starts at i
LineEnd(s, i) == SetMin({j \in i..Len(s) : j = Len(s) \/ s[j] = "\n"})

\* str.splitlines(True) from index i on; "\n" is the only line boundary
\* in the texts of the model
RECURSIVE SplitLines(_, _)
SplitLines(s, i) ==
    IF i > Len(s) THEN <<>>
    ELSE <<SubSeq(s, i, LineEnd(s, i))>> \o SplitLines(s, LineEnd(s, i) + 1)

RECURSIVE Concat(_)
Concat(parts) == IF parts = <<>> THEN <<>> ELSE Head(parts) \o Concat(Tail(parts))

\* str.split(c, n) from index i on, Q being the places at or after i where
\* c stands
RECURSIVE SplitMax(_, _, _, _)
SplitMaxAt(s, i, c, n, Q) ==
    IF n = 0 \/ Q = {} THEN <<SubSeq(s, i, Len(s))>>
    ELSE <<SubSeq(s, i, SetMin(Q) - 1)>> \o SplitMax(s, SetMin(Q) + 1, c, n - 1)

SplitMax(s, i, c, n) ==
    SplitMaxAt(s, i, c, n, {q \in i..Len(s) : s[q] = c})

\* re.match(r"[ \t]*(%|\n)", line)
HeaderMatch(line) ==
    /\ SkipRun(line, 1, BlankChars) <= Len(line)
    /\ line[SkipRun(line, 1, BlankChars)] \in {"%", "\n"}

\* lines 18-23: ln_pos, k being the line under test
RECURSIVE HeaderLines(_, _)
HeaderLines(lines, k) ==
    IF k <= Len(lines) /\ HeaderMatch(lines[k]) THEN HeaderLines(lines, k + 1)
    ELSE k - 1

\* lines 27-31: code.split('\n', ln_pos)[ln_pos:][0], '' on IndexError
HeaderCut(parts, ln_pos) ==
    IF Len(parts) > ln_pos THEN parts[ln_pos + 1] ELSE <<>>

HeaderRemove(code, ln_pos) ==
    IF ln_pos > 0 THEN HeaderCut(SplitMax(code, 1, "\n", ln_pos), ln_pos)
    ELSE code

code_remove_comment_header(code) ==
    HeaderRemove(code, HeaderLines(SplitLines(code, 1), 1))

Dots == <<".", ".", ".">>
Quote == "'"

\* the places of line, within lo..hi, where an ellipsis starts
DotsIn(line, lo, hi) == {q \in lo..hi : HasAt(line, q, Dots)}

CutDots(line, Q) ==
    IF Q = {} THEN line
    ELSE SubSeq(line, 1, SetMax(Q) - 1) \o SubSeq(line, SetMax(Q) + 3, Len(line))

\* line 44 on one line: ('.*)(\.\.\.)(.*') matches from the first quote of
\* the line to its last one, the ellipsis being the last one between them
QuotedDots(line, quotes) ==
    IF quotes = {} THEN line
    ELSE CutDots(line, DotsIn(line, SetMin(quotes) + 1, SetMax(quotes) - 3))

RemoveQuotedDots(line) ==
    QuotedDots(line, {i \in 1..Len(line) : line[i] = Quote})

\* line 47 on one line: ^([^%'\"\n]*)(\.\.\..*\n) keeps what precedes the
\* last ellipsis that no %, ' or " precedes, and needs the line's newline
CutContinuation(line, Q) ==
    IF Q = {} \/ Last(line) # "\n" THEN line
    ELSE SubSeq(line, 1, SetMax(Q) - 1)

RemoveContinuation(line) ==
    CutContinuation(line, DotsIn(line, 1,
                        SkipRun(line, 1, {line[i] : i \in 1..Len(line)}
                                          \ {"%", Quote, "\"", "\n"}) - 1))

\* line 44, re.sub over the lines of the text
SubQuotedDots(lines) ==
    Concat([i \in 1..Len(lines) |-> RemoveQuotedDots(lines[i])])

\* line 47, re.sub over the lines of the text
SubContinuations(lines) ==
    Concat([i \in 1..Len(lines) |-> RemoveContinuation(lines[i])])

\* lines 44-48
code_remove_line_continuations(code) ==
    SubContinuations(SplitLines(SubQuotedDots(SplitLines(code, 1)), 1))

Function == <<"f", "u", "n", "c", "t", "i", "o", "n">>
Classdef == <<"c", "l", "a", "s", "s", "d", "e", "f">>

\* the smallest index at or after i at which a line starts, Len(s)+1 if none
NextLineStart(s, i) ==
    SetMin({j \in i..(Len(s) + 1) : j > Len(s) \/ j = 1 \/ s[j - 1] = "\n"})

NoMatch == [ok |-> FALSE, stop |-> 0, name |-> <<>>, args |-> <<>>]

\* what stands between `function` and `=`: [ \t.\n]* (\[?[\w, \t.\n]*\]?) [ \t.\n]*
DropOpen(r) == IF r # <<>> /\ Head(r) = "[" THEN Tail(r) ELSE r
DropClose(r) == IF r # <<>> /\ Last(r) = "]" THEN SubSeq(r, 1, Len(r) - 1) ELSE r
OutputsMatch(r) ==
    \A i \in 1..Len(DropClose(RStrip(DropOpen(LStrip(r, SepChars)), SepChars))) :
        DropClose(RStrip(DropOpen(LStrip(r, SepChars)), SepChars))[i] \in ListChars

\* \)?, k4 being where group(3) ends
SigClose(s, name, k3, k4) ==
    [ok |-> TRUE,
     stop |-> IF k4 <= Len(s) /\ s[k4] = ")" THEN k4 + 1 ELSE k4,
     name |-> name, args |-> SubSeq(s, k3, k4 - 1)]

\* ([\w, \t.\n]*), group(3), from k3 on
SigArgs(s, name, k3) == SigClose(s, name, k3, SkipRun(s, k3, ListChars))

\* \(?, k2 being the index after the blanks that follow the name
SigOpen(s, name, k2) ==
    SigArgs(s, name, IF k2 <= Len(s) /\ s[k2] = "(" THEN k2 + 1 ELSE k2)

\* (\w+)[ \t.\n]*, group(2) being s[k..k1-1]
SigName(s, k, k1) ==
    IF k1 = k THEN NoMatch
    ELSE SigOpen(s, SubSeq(s, k, k1 - 1), SkipRun(s, k1, SepChars))

SigAfterEq(s, k) == SigName(s, k, SkipRun(s, k, WordChars))

\* =[ \t.\n]*, m being the index after the outputs
SigEq(s, j, m) ==
    IF m <= Len(s) /\ s[m] = "=" /\ OutputsMatch(SubSeq(s, j, m - 1))
    THEN SigAfterEq(s, SkipRun(s, m + 1, SepChars))
    ELSE NoMatch

\* [ \t]*function, i being the index after the blanks
SigKeyword(s, i) ==
    IF HasAt(s, i, Function)
    THEN SigEq(s, i + 8, SkipRun(s, i + 8, ListChars \cup {"[", "]"}))
    ELSE NoMatch

\* re_function_signatures (lines 52-61) tried at the line start p
SigMatch(s, p) == SigKeyword(s, SkipRun(s, p, BlankChars))

\* repl, lines 75-80, retv being m.group(0)
repl(retv, m) ==
    IF ~(m.args # <<>> \/ EndsWith(retv, <<"(", ")">>))
    THEN Replace(retv, 1, m.name, m.name \o <<"(", ")">>)
    ELSE retv

\* re_function_signatures.sub(repl, code), from index i on
RECURSIVE SigSub(_, _)
SigSubAt(s, i, p, m) ==
    IF p > Len(s) THEN SubSeq(s, i, Len(s))
    ELSE IF m.ok
    THEN SubSeq(s, i, p - 1) \o repl(SubSeq(s, p, m.stop - 1), m) \o SigSub(s, m.stop)
    ELSE SubSeq(s, i, p) \o SigSub(s, p + 1)

SigSubFrom(s, i, p) ==
    SigSubAt(s, i, p, IF p > Len(s) THEN NoMatch ELSE SigMatch(s, p))

SigSub(s, i) == SigSubFrom(s, i, NextLineStart(s, i))

\* line 82
code_fix_function_signatures(code) == SigSub(code, 1)

\* lines 100-104
code_preprocess(code) ==
    code_fix_function_signatures(
        code_remove_line_continuations(
            code_remove_comment_header(code)))

(***************************************************************************)
(* Specification SpecLiteral: tks_code_literal applied to every token      *)
(* stream of at most MaxLitLen tokens over LitAlphabet.                    *)
(***************************************************************************)
tkLP == Tok("Punctuation", <<"(">>)
tkRP == Tok("Punctuation", <<")">>)
tkLB == Tok("Punctuation", <<"{">>)
tkRB == Tok("Punctuation", <<"}">>)
tkComma == Tok("Punctuation", <<",">>)
tkSemi == Tok("Punctuation", <<";">>)
tkEq == Tok("Punctuation", <<"=">>)
tkNameA == Tok("Name", <<"a">>)
tkBlank == Tok("Whitespace", <<" ">>)
tkNL == Tok("Whitespace", <<"\n">>)
tkComment == Tok("Comment", <<"%", " ", "d">>)

LitAlphabet == {tkLP, tkRP, tkLB, tkRB, tkComma, tkNameA, tkBlank, tkNL, tkComment}

SeqsUpTo(S, n) == UNION {[1..m -> S] : m \in 0..n}

LitIdle == lit_tks = <<>> /\ lit_res = NotRun

FnIdle == fn_tks = <<>> /\ fn_res = NotRun

MfIdle == mf_code = <<>> /\ mf_res = NotRun

ImIdle == im_fs = <<>> /\ im_w = <<>> /\ im_last = NotRun

ClIdle == cl_in = <<>> /\ cl_res = NotRun

DsIdle == ds_in = <<>> /\ ds_res = NotRun /\ ds_again = NotRun

PpIdle == pp_lines = <<>> /\ pp_once = <<>> /\ pp_twice = <<>> /\ pp_fix = <<>>

InitLit ==
    /\ lit_tks \in SeqsUpTo(LitAlphabet, MaxLitLen)
    /\ lit_res = NotRun
    /\ FnIdle
    /\ MfIdle
    /\ ImIdle
    /\ ClIdle
    /\ DsIdle
    /\ PpIdle

\* the call tks_code_literal(tks) on a fresh generator over lit_tks
CallCodeLiteral ==
    /\ lit_res = NotRun
    /\ lit_res' = tks_code_literal(lit_tks, 1)
    /\ UNCHANGED <<lit_tks, vars_fn, vars_mf, vars_im, vars_cl, vars_ds, vars_pp>>

NextLit == CallCodeLiteral

SpecLiteral == InitLit /\ [][NextLit]_vars

(***************************************************************************)
(* What the claims about tks_code_literal speak of, read off the token     *)
(* stream alone: the bracket structure of the whole stream, every token    *)
(* counted.  BracketScan gives the index of the first statement end at     *)
(* depth zero, 0 when the stream ends first (with stack left open), or -1  *)
(* at a closer that does not match the innermost open bracket.             *)
(***************************************************************************)
RECURSIVE BracketScan(_, _, _)
BracketScan(tks, i, stack) ==
    IF i > Len(tks) THEN [at |-> 0, open |-> stack]
    ELSE IF stack = <<>> /\ StatementEnd(tks[i]) THEN [at |-> i, open |-> stack]
    ELSE IF IsPunct(tks[i], Openers)
         THEN BracketScan(tks, i + 1, Append(stack, ClosingOf(tks[i].v[1])))
    ELSE IF IsPunct(tks[i], Closers)
         THEN IF tks[i].v[1] = Last(stack)
              THEN BracketScan(tks, i + 1, SubSeq(stack, 1, Len(stack) - 1))
              ELSE [at |-> -1, open |-> stack]
    ELSE BracketScan(tks, i + 1, stack)

RECURSIVE RawText(_, _, _)
RawText(tks, from, to) ==
    IF from > to THEN <<>> ELSE tks[from].v \o RawText(tks, from + 1, to)

LitScan == BracketScan(lit_tks, 1, <<>>)
\* balanced up to a statement end at depth zero
LitBalanced == LitScan.at > 0
\* a mismatched closer, or an opener the stream never closes
LitUnbalanced == LitScan.at = -1 \/ (LitScan.at = 0 /\ LitScan.open # <<>>)

\* C4: on balanced input the literal is the raw text of everything before the
\* first comma, closing bracket, newline or comment at bracket depth zero, and
\* that terminating token is returned as the first unconsumed token.
C4_RawTextUpToTerminator ==
    (lit_res # NotRun /\ LitBalanced) =>
        /\ lit_res.exc = "none"
        /\ lit_res.literal = RawText(lit_tks, 1, LitScan.at - 1)
        /\ lit_res.tok = lit_tks[LitScan.at]
        /\ lit_res.pos = LitScan.at + 1

\* C5: on unbalanced input (a closer that does not match the innermost
\* opener, or an opener never closed) tks_code_literal fails with IndexError,
\* having read no token past the end of the stream.
C5_UnbalancedRaisesIndexError ==
    (lit_res # NotRun /\ LitUnbalanced) =>
        /\ lit_res.exc = "IndexError"
        /\ lit_res.tok # NoToken

(***************************************************************************)
(* Specification SpecFunction: MatFunction built from the token stream of  *)
(* a function file f.m: a signature, then up to MaxDocLines comment lines, *)
(* then an arguments block, in the shape pygments gives them (lines        *)
(* 1459-1471: outputs and arguments each one Text token).                  *)
(***************************************************************************)
tkText(v) == Tok("Text", v)
tkFunc(v) == Tok("Name.Function", v)
tkName(v) == Tok("Name", v)
tkInt(v) == Tok("Integer", v)
tkEnd == Tok("Keyword", <<"e", "n", "d">>)
tkArguments == Tok("Name.Builtin", <<"a", "r", "g", "u", "m", "e", "n", "t", "s">>)
tkNLIndent == Tok("Whitespace", <<"\n", " ", " ">>)
tkArgsAB == tkText(<<"a", ",", "b">>)
NameF == <<"f">>

SigFull     == <<tkBlank, tkText(<<"y">>), tkBlank, tkEq, tkBlank, tkFunc(<<"f">>),
                 tkLP, tkArgsAB, tkRP, tkNL>>
SigOtherName == <<tkBlank, tkText(<<"y">>), tkBlank, tkEq, tkBlank, tkFunc(<<"g">>),
                 tkLP, tkArgsAB, tkRP, tkNL>>
SigNoEq     == <<tkBlank, tkText(<<"y">>), tkBlank, tkFunc(<<"f">>),
                 tkLP, tkArgsAB, tkRP, tkNL>>
SigNoName   == <<tkBlank, tkText(<<"y">>), tkBlank, tkEq, tkBlank,
                 tkLP, tkArgsAB, tkRP, tkNL>>
SigEmptyArgs == <<tkBlank, tkText(<<"y">>), tkBlank, tkEq, tkBlank, tkFunc(<<"f">>),
                 tkLP, tkRP, tkNL>>
SigNoClose  == <<tkBlank, tkText(<<"y">>), tkBlank, tkEq, tkBlank, tkFunc(<<"f">>),
                 tkLP, tkArgsAB, tkNL>>
SigNoReturn == <<tkBlank, tkFunc(<<"f">>), tkLP, tkArgsAB, tkRP, tkNL>>
SigBare     == <<tkBlank, tkFunc(<<"f">>), tkNL>>

\* each signature with the argument and return names written in it
AB == <<<<"a">>, <<"b">>>>
SigsWellFormed == {[toks |-> SigFull, args |-> AB, retv |-> <<<<"y">>>>],
                   [toks |-> SigNoReturn, args |-> AB, retv |-> <<>>],
                   [toks |-> SigBare, args |-> <<>>, retv |-> <<>>]}
\* signatures that lack an expected token
SigsMismatch == {[toks |-> SigNoEq, args |-> AB, retv |-> <<<<"y">>>>],
                 [toks |-> SigNoName, args |-> AB, retv |-> <<<<"y">>>>],
                 [toks |-> SigNoClose, args |-> AB, retv |-> <<<<"y">>>>]}
\* the declared name is g, the file is f.m
SigsOtherName == {[toks |-> SigOtherName, args |-> AB, retv |-> <<<<"y">>>>]}
Signatures == SigsWellFormed \cup SigsMismatch \cup SigsOtherName
              \cup {[toks |-> SigEmptyArgs, args |-> <<>>, retv |-> <<<<"y">>>>]}

RECURSIVE DocLines(_)
DocLines(n) == IF n = 0 THEN <<>> ELSE <<tkComment, tkNL>> \o DocLines(n - 1)

\* one line of an arguments block: indentation, the name, then the rest
ArgLine(name, rest) == <<tkName(name)>> \o rest \o <<tkNLIndent>>
SizeTypeDefault == <<tkBlank, tkLP, tkInt(<<"1">>), tkComma, tkInt(<<"1">>), tkRP,
                     tkBlank, tkName(<<"d">>), tkBlank, tkEq, tkBlank, tkInt(<<"0">>)>>
ArgBlock(attrs, lines) == <<tkArguments>> \o attrs \o <<tkNLIndent>> \o lines
                          \o <<tkEnd, tkNL>>
AttrOutput == <<tkBlank, tkLP, tkName(<<"O", "u", "t", "p", "u", "t">>), tkRP>>

\* the argument names written in each block, in order
BlockCatalog == {
    [toks |-> <<>>, written |-> <<>>],
    [toks |-> ArgBlock(<<>>, ArgLine(<<"a">>, SizeTypeDefault)
                             \o ArgLine(<<"b">>, SizeTypeDefault)),
     written |-> <<<<"a">>, <<"b">>>>],
    [toks |-> ArgBlock(<<>>, ArgLine(<<"a">>, SizeTypeDefault)
                             \o ArgLine(<<"z">>, SizeTypeDefault)),
     written |-> <<<<"a">>, <<"z">>>>],
    [toks |-> ArgBlock(<<>>, ArgLine(<<"z">>, <<>>)),
     written |-> <<<<"z">>>>],
    [toks |-> ArgBlock(<<>>, ArgLine(<<"a">>, <<>>) \o ArgLine(<<"z">>, <<>>)
                             \o ArgLine(<<"b">>, SizeTypeDefault)),
     written |-> <<<<"a">>, <<"z">>, <<"b">>>>],
    [toks |-> ArgBlock(AttrOutput, ArgLine(<<"y">>, SizeTypeDefault)),
     written |-> <<<<"y">>>>],
    [toks |-> ArgBlock(AttrOutput, ArgLine(<<"a">>, SizeTypeDefault)),
     written |-> <<<<"a">>>>] }

FnInputs ==
    {[sig |-> s, ndoc |-> n, block |-> b,
      toks |-> s.toks \o DocLines(n) \o b.toks \o <<tkNameA, tkNL, tkEnd, tkNL>>] :
        s \in Signatures, n \in 0..MaxDocLines, b \in BlockCatalog}

InitFn ==
    /\ fn_tks \in FnInputs
    /\ fn_res = NotRun
    /\ LitIdle
    /\ MfIdle
    /\ ImIdle
    /\ ClIdle
    /\ DsIdle
    /\ PpIdle

\* MatFunction(name, modname, tks) as parse_mfile calls it for f.m
CallMatFunction ==
    /\ fn_res = NotRun
    /\ fn_res' = MatFunction_init(NameF, fn_tks.toks, 1)
    /\ UNCHANGED <<fn_tks, vars_lit, vars_mf, vars_im, vars_cl, vars_ds, vars_pp>>

NextFn == CallMatFunction

SpecFunction == InitFn /\ [][NextFn]_vars

\* the run got as far as its arguments block: the signature is complete, the
\* name is the file's, and a docstring follows
ReachesBlock ==
    /\ fn_res # NotRun
    /\ fn_tks.sig \in SigsWellFormed
    /\ fn_tks.ndoc > 0
    /\ fn_tks.block.written # <<>>

Declared == SeqSet(fn_tks.sig.args) \cup SeqSet(fn_tks.sig.retv)

\* C6: every entry an arguments block records is named in the function's input
\* or return list, and a block with an entry named in neither fails with the
\* unknown-argument error (IndexError) instead of being recorded.
C6_UnknownArgumentFails ==
    ReachesBlock =>
        /\ SeqSet(ArgNames(fn_res.args_va)) \cup SeqSet(ArgNames(fn_res.retv_va))
               \subseteq Declared
        /\ (SeqSet(fn_tks.block.written) \ Declared # {}) => fn_res.exc = "IndexError"

\* C7: a signature that lacks an expected token (`=`, the name, `)`) gives a
\* warning and a partially built entity; no exception leaves the constructor.
C7_MismatchReturnsPartial ==
    (fn_res # NotRun /\ fn_tks.sig \in SigsMismatch) => fn_res.exc = "none"

\* C8: a declared name that differs from the file's name is only logged: the
\* entity keeps the expected name and the rest of the declaration is parsed.
C8_NameMismatchOnlyLogged ==
    (fn_res # NotRun /\ fn_tks.sig \in SigsOtherName /\ fn_tks.ndoc > 0
       /\ fn_tks.block.written = <<>>) =>
        /\ fn_res.exc = "none"
        /\ fn_res.name = NameF
        /\ fn_res.args = fn_tks.sig.args

(***************************************************************************)
(* MatObject.parse_mfile, on the text read from the file.                  *)
(***************************************************************************)
\* lines 175-176, next(tks) == (Token.Keyword, kw): pygments' MatlabLexer
\* drops the newlines that begin the text (stripnl), gives white space that
\* precedes a keyword as a token of its own, and takes `function` and
\* `classdef` as keywords only where the word ends
FirstLexed(t, kw) ==
    /\ HasAt(t, 1, kw)
    /\ ~(Len(t) > Len(kw) /\ t[Len(kw) + 1] \in WordChars)

FirstTokenIs(code, kw) == FirstLexed(LStrip(code, {"\n"}), kw)

\* MatClass.__init__ handed a generator: self.attributes(idx, ...) reads
\* self.tokens[idx] (lines 914, 1247), a generator cannot be subscripted and
\* the handler of line 1236 is for IndexError only
MatClass_init_generator == [kind |-> "MatClass", exc |-> "TypeError"]

\* MatScript.__init__ handed a generator: copy(self.tokens), line 1659
MatScript_init == [kind |-> "MatScript", exc |-> "TypeError"]

\* the outcomes MatFunction.__init__ has (MatFunction_init above); the
\* tokens it reads are the lexer's
FunctionOutcomes == {"none", "TypeError", "AttributeError", "IndexError"}

\* lines 178-187, fexc being the outcome of MatFunction(name, modname, tks)
Dispatch(code, fexc) ==
    IF FirstTokenIs(code, Classdef) THEN MatClass_init_generator
    ELSE IF FirstTokenIs(code, Function) THEN [kind |-> "MatFunction", exc |-> fexc]
    ELSE MatScript_init

\* lines 170-187
parse_mfile(text, fexc) ==
    Dispatch(code_preprocess(Replace(text, 1, <<"\r", "\n">>, <<"\n">>)), fexc)

(***************************************************************************)
(* Specification SpecMfile: parse_mfile on a file of at most MaxFileLines  *)
(* lines, each taken from LineCatalog.                                     *)
(***************************************************************************)
LineComment == <<"%", " ", "c", "\n">>
LineEmpty == <<"\n">>
LineBlank == <<" ", "\n">>
LineClassdef == <<"c", "l", "a", "s", "s", "d", "e", "f", " ", "A", "\n">>
LineClassdefIndented == <<" ", "c", "l", "a", "s", "s", "d", "e", "f", " ", "A", "\n">>
LineFunction == <<"f", "u", "n", "c", "t", "i", "o", "n", " ", "f", "\n">>
LineFunctionIndented == <<" ", "f", "u", "n", "c", "t", "i", "o", "n", " ", "f", "\n">>
LineStatement == <<"x", "\n">>
LineFunctionOut == <<"f", "u", "n", "c", "t", "i", "o", "n", " ", "y", " ", "=", " ", "f", "\n">>
LineFunctionOutArgs == <<"f", "u", "n", "c", "t", "i", "o", "n", " ", "y", " ", "=", " ", "f", "(", "a", ")", "\n">>
LineCommentOpen == <<"%", " ", "c">>
LineCatalog ==
    {LineComment,
     LineEmpty,
     LineBlank,
     LineClassdef,
     LineClassdefIndented,
     LineFunction,
     LineFunctionIndented,
     LineStatement,
     LineFunctionOut,
     LineFunctionOutArgs,
     LineCommentOpen}

MfileTexts == {Concat(ls) : ls \in SeqsUpTo(LineCatalog, MaxFileLines)}

InitMfile ==
    /\ mf_code \in MfileTexts
    /\ mf_res = NotRun
    /\ LitIdle
    /\ FnIdle
    /\ ImIdle
    /\ ClIdle
    /\ DsIdle
    /\ PpIdle

CallParseMfile ==
    /\ mf_res = NotRun
    /\ \E fexc \in FunctionOutcomes : mf_res' = parse_mfile(mf_code, fexc)
    /\ UNCHANGED <<mf_code, vars_lit, vars_fn, vars_im, vars_cl, vars_ds, vars_pp>>

NextMfile == CallParseMfile

SpecMfile == InitMfile /\ [][NextMfile]_vars

\* the text from its first significant character on: white space and
\* comment lines are not significant
RECURSIVE SkipInsignificant(_)
SkipComment(t) ==
    IF t # <<>> /\ Head(t) = "%"
    THEN SkipInsignificant(SubSeq(t, LineEnd(t, 1) + 1, Len(t)))
    ELSE t

SkipInsignificant(s) == SkipComment(LStrip(s, {" ", "\t", "\n"}))

KindOfWord(t) ==
    IF FirstLexed(t, Classdef) THEN "MatClass"
    ELSE IF FirstLexed(t, Function) THEN "MatFunction"
    ELSE "MatScript"

ExpectedKind(text) == KindOfWord(SkipInsignificant(text))

\* C3: parse_mfile builds the kind of entity that the first significant
\* token of the file names (classdef: MatClass, function: MatFunction,
\* anything else: MatScript), whatever comment header, blank lines or
\* leading white space precede that token; the class or script is built,
\* that is, its constructor returns.
C3_KindByFirstSignificantToken ==
    mf_res # NotRun =>
        /\ mf_res.kind = ExpectedKind(mf_code)
        /\ mf_res.kind \in {"MatClass", "MatScript"} => mf_res.exc = "none"

(***************************************************************************)
(* The object model: MatObject.matlabify, MatModule and                    *)
(* MatClass.__bases__.  A name is a text without dots; an object name      *)
(* (package.name) and a path below basedir are sequences of names, so      *)
(* that '.'.join, replace('.', os.sep), os.path.split and os.path.join     *)
(* are Append, Front and Last.  The world w is what the calls change:      *)
(* w.modules is the dictionary `modules` (a module being its path, its     *)
(* package and the attributes setattr gave it), w.parses counts the runs   *)
(* of parse_mfile on each file.  Every operator returns the world, the     *)
(* exception that left it and the value it returned.                       *)
(***************************************************************************)
None == <<>>
Some(x) == <<x>>
Front(s) == SubSeq(s, 1, Len(s) - 1)

Ret(w, exc, value) == [w |-> w, exc |-> exc, value |-> value]

\* a module (path: its package), or what a parse of the file at path built,
\* serial telling the objects built from one file apart
Entity(kind, path, serial) == [kind |-> kind, path |-> path, serial |-> serial]

Pkg == <<"p", "k", "g">>
NameG == <<"g">>
NameB == <<"B">>
NameH == <<"h">>
NameApp == <<"a", "p", "p">>
Git == <<".", "g", "i", "t">>
\* lines 267 and 1351
VcsDirs == {Git, <<".", "h", "g">>, <<".", "s", "v", "n">>, <<".", "b", "z", "r">>}

\* the folders below basedir, and the .mlapp files
Dirs == {<<>>, <<Pkg>>, <<Pkg, Git>>}
Mlapps == {<<Pkg, NameApp>>}

\* os.path.isdir(os.path.join(basedir, objname)): an empty last name leaves
\* a trailing separator
DirOf(objname) == SelectSeq(objname, LAMBDA n : n # <<>>)
IsDir(objname) == DirOf(objname) \in Dirs

\* MatModule.__init__, lines 252-259
MatModule_init(w, path, package) ==
    [w EXCEPT !.modules =
        [k \in DOMAIN w.modules \cup {package} |->
            IF k = package
            THEN [path |-> path, package |-> package, attrs |-> <<>>]
            ELSE w.modules[k]]]

\* lines 178-187: what parse_mfile returns, r being its dispatch
Parsed(w, path, r) ==
    IF r.exc # "none" THEN Ret(w, r.exc, None)
    ELSE Ret(w, "none", Some(Entity(r.kind, path, w.parses[path])))

\* the file at path as the tree holds it: which source it is, and what
\* parse_mfile (lines 170-187) makes of its text and of the tokens that
\* follow `function` in it, which is the same at every parse
Stored(path, src) ==
    [src |-> src.label,
     built |-> parse_mfile(src.text, MatFunction_init(Last(path), src.toks, 1).exc)]

\* MatObject.parse_mfile on the file at path: one more parse of it
ParseFile(w, fs, path) ==
    Parsed([w EXCEPT !.parses[path] = @ + 1], path, fs[path].built)

\* lines 120-129
MatlabifyDir(w, objname) ==
    IF objname \in DOMAIN w.modules
    THEN Ret(w, "none", Some(Entity("MatModule", objname, 0)))
    ELSE Ret(MatModule_init(w, DirOf(objname), objname), "none",
             Some(Entity("MatModule", objname, 0)))

\* MatObject.matlabify, lines 109-140
matlabify(w, fs, objname) ==
    IF objname = <<>> THEN Ret(w, "none", None)
    ELSE IF IsDir(objname) THEN MatlabifyDir(w, objname)
    ELSE IF objname \in DOMAIN fs THEN ParseFile(w, fs, objname)
    ELSE IF objname \in Mlapps
    THEN Ret(w, "none", Some(Entity("MatApplication", objname, 0)))
    ELSE Ret(w, "none", None)

\* setattr(self, name, attr), line 332
SetAttr(w, package, name, attr) ==
    [w EXCEPT !.modules[package].attrs =
        [k \in DOMAIN @ \cup {name} |-> IF k = name THEN attr ELSE @[k]]]

\* lines 330-337, r being what matlabify returned
GetterImported(package, name, r) ==
    IF r.exc # "none" \/ r.value = None THEN r
    ELSE Ret(SetAttr(r.w, package, name, r.value[1]), "none", r.value)

\* the name of the attribute that line 255 gives every module
NamePath == <<"p", "a", "t", "h">>

\* getattr(self, 'path'), line 329: the str of the module's folder
OwnAttr(w, package) == Entity("str", w.modules[package].path, 0)

\* MatModule.getter(name, None), lines 325-337, for a name that is none of
\* the double-underscore attributes; of the attributes MatModule has of
\* itself the names of the model hold one, path
MatModule_getter(w, fs, package, name) ==
    IF name = NamePath THEN Ret(w, "none", Some(OwnAttr(w, package)))
    ELSE IF name \in DOMAIN w.modules[package].attrs
    THEN Ret(w, "none", Some(w.modules[package].attrs[name]))
    ELSE GetterImported(package, name, matlabify(w, fs, Append(package, name)))

\* os.listdir(dir): a file is its name and its extension, a folder its name
Listing(fs, dir) ==
    {[name |-> Last(p), ext |-> ".m", isdir |-> FALSE] :
        p \in {q \in DOMAIN fs : Front(q) = dir}}
    \cup {[name |-> Last(p), ext |-> ".mlapp", isdir |-> FALSE] :
        p \in {q \in Mlapps : Front(q) = dir}}
    \cup {[name |-> Last(p), ext |-> "", isdir |-> TRUE] :
        p \in {q \in Dirs : q # <<>> /\ Front(q) = dir}}

\* the orders in which os.listdir may give the entries
Orders(S) ==
    {s \in [1..Cardinality(S) -> S] : \A i, j \in 1..Cardinality(S) : s[i] = s[j] => i = j}

\* the characters of names, by code point
CodeOrder == <<".", "B", "_", "a", "f", "g", "h", "i", "k", "p", "t">>
Ord(c) == CHOOSE i \in 1..Len(CodeOrder) : CodeOrder[i] = c

\* a < b for str
RECURSIVE StrLess(_, _)
StrLess(a, b) ==
    IF b = <<>> THEN FALSE
    ELSE IF a = <<>> THEN TRUE
    ELSE IF Head(a) # Head(b) THEN Ord(Head(a)) < Ord(Head(b))
    ELSE StrLess(Tail(a), Tail(b))

\* results.sort(), line 279: the keys differ, so the keys decide
RECURSIVE SortPairs(_)
Insert(pair, sorted) ==
    SelectSeq(sorted, LAMBDA x : StrLess(x[1], pair[1])) \o <<pair>>
    \o SelectSeq(sorted, LAMBDA x : ~StrLess(x[1], pair[1]))

SortPairs(results) ==
    IF results = <<>> THEN <<>> ELSE Insert(Head(results), SortPairs(Tail(results)))

Keys(results) == {results[i][1] : i \in 1..Len(results)}

\* MatModule.safe_getmembers, lines 263-280, order being os.listdir's and i
\* the entry the loop is at
RECURSIVE MembersLoop(_, _, _, _, _, _)
MemberGot(fs, package, order, i, results, r) ==
    IF r.exc # "none" THEN Ret(r.w, r.exc, None)
    ELSE MembersLoop(r.w, fs, package, order, i + 1,
                     IF r.value # None
                     THEN Append(results, <<order[i].name, r.value[1]>>)
                     ELSE results)

MembersLoop(w, fs, package, order, i, results) ==
    IF i > Len(order) THEN Ret(w, "none", SortPairs(results))
    ELSE IF \/ order[i].isdir /\ order[i].name \in VcsDirs
            \/ ~order[i].isdir /\ order[i].ext # ".m"
            \/ order[i].name \in Keys(results)
    THEN MembersLoop(w, fs, package, order, i + 1, results)
    ELSE MemberGot(fs, package, order, i, results,
                   MatModule_getter(w, fs, package, order[i].name))

safe_getmembers(w, fs, package, order) ==
    MembersLoop(w, fs, package, order, 1, <<>>)

\* os.walk(basedir), line 1346, top down with the VCS folders pruned: the
\* roots in the order of the walk, and the folders and .m files of a root
WalkRoots == <<<<>>, <<Pkg>>>>
WalkDirs(root) ==
    IF root = <<>> THEN <<Pkg>> ELSE <<>>

\* lines 1359-1372: the search of base b in the folders ds of root, cur
\* being bases_[b]
RECURSIVE BaseInDirs(_, _, _, _, _, _)
BaseSecondGot(fs, root, b, ds, cur, r) ==
    IF r.exc # "none" \/ r.value # None THEN r
    ELSE BaseInDirs(r.w, fs, root, b, Tail(ds), cur)

BaseFirstGot(fs, root, b, ds, cur, r) ==
    IF r.exc # "none" \/ r.value # None THEN r
    ELSE BaseSecondGot(fs, root, b, ds, cur,
             MatModule_getter(r.w, fs, Append(root, Head(ds)),
                              LStrip(b, SeqSet(LStrip(Head(ds), {"+"})))))

BaseInDirs(w, fs, root, b, ds, cur) ==
    IF ds = <<>> THEN Ret(w, "none", cur)
    ELSE IF Append(root, Head(ds)) \notin DOMAIN w.modules
    THEN BaseInDirs(w, fs, root, b, Tail(ds), cur)
    ELSE BaseFirstGot(fs, root, b, ds, cur,
                      MatModule_getter(w, fs, Append(root, Head(ds)), b))

SetBase(bases_, b, value) == [bases_ EXCEPT ![b] = value]

\* MatClass.__bases__, lines 1343-1380, ri and bi being the root and the
\* base the loops are at
RECURSIVE BasesLoop(_, _, _, _, _, _)
BaseParsed(fs, bases, ri, bi, bases_, r) ==
    IF r.exc # "none" THEN Ret(r.w, r.exc, None)
    ELSE BasesLoop(r.w, fs, bases, ri, bi + 1, SetBase(bases_, bases[bi], r.value))

BaseDirsGot(fs, bases, ri, bi, bases_, r) ==
    IF r.exc # "none" THEN Ret(r.w, r.exc, None)
    ELSE IF r.value # None
    THEN BasesLoop(r.w, fs, bases, ri, bi + 1, SetBase(bases_, bases[bi], r.value))
    ELSE IF Append(WalkRoots[ri], bases[bi]) \in DOMAIN fs
    THEN BaseParsed(fs, bases, ri, bi, bases_,
                    ParseFile(r.w, fs, Append(WalkRoots[ri], bases[bi])))
    ELSE BasesLoop(r.w, fs, bases, ri, bi + 1, bases_)

BasesLoop(w, fs, bases, ri, bi, bases_) ==
    IF ri > Len(WalkRoots) THEN Ret(w, "none", bases_)
    ELSE IF bi > Len(bases) THEN BasesLoop(w, fs, bases, ri + 1, 1, bases_)
    ELSE BaseDirsGot(fs, bases, ri, bi, bases_,
                     BaseInDirs(w, fs, WalkRoots[ri], bases[bi],
                                WalkDirs(WalkRoots[ri]), bases_[bases[bi]]))

\* dict.fromkeys(self.bases), line 1343: the keys, each name at the place
\* where it first stands in bases
DictKeys(bases) ==
    SelectSeq([i \in 1..Len(bases) |->
                  IF \E j \in 1..(i - 1) : bases[j] = bases[i] THEN None ELSE Some(bases[i])],
              LAMBDA x : x # None)

\* line 1380: the dictionary returned, as its items in the order of its keys
BasesItems(bases, r) ==
    IF r.exc # "none" THEN r
    ELSE Ret(r.w, "none",
             [k \in 1..Len(DictKeys(bases)) |->
                 <<DictKeys(bases)[k][1], r.value[DictKeys(bases)[k][1]]>>])

MatClass_bases(w, fs, bases) ==
    BasesItems(bases, BasesLoop(w, fs, bases, 1, 1, [b \in SeqSet(bases) |-> None]))

(***************************************************************************)
(* Specification SpecImport: one build over a source tree                  *)
(*     basedir/B.m (or none), basedir/pkg/{f.m, g.m, app.mlapp, .git/}     *)
(* in which objects are imported (MatObject.matlabify), members are looked *)
(* up (MatModule.getter, MatModule.safe_getmembers) and the bases of a     *)
(* class that derives from B are resolved (MatClass.__bases__), in any     *)
(* order, while no file has been parsed more than MaxParses times.  A      *)
(* source is its text and the tokens that follow `function` in it.         *)
(***************************************************************************)
SigNamed(n) == <<tkBlank, tkText(<<"y">>), tkBlank, tkEq, tkBlank, tkFunc(n),
                 tkLP, tkArgsAB, tkRP, tkNL>>
SigText(n) == <<"f", "u", "n", "c", "t", "i", "o", "n", " ", "y", " ", "=", " ">> \o n \o <<"(", "a", ",", "b", ")", "\n">>
DocText == <<"%", " ", "d", "\n">>
BodyToks == <<tkNameA, tkNL, tkEnd, tkNL>>
BodyText == <<"a", "\n", "e", "n", "d", "\n">>
UnknownArgBlock == ArgBlock(<<>>, ArgLine(<<"a">>, SizeTypeDefault)
                                  \o ArgLine(<<"z">>, SizeTypeDefault))
UnknownArgText == <<"a", "r", "g", "u", "m", "e", "n", "t", "s", "\n", " ", " ", "a", " ", "(", "1", ",", "1", ")", " ", "d", " ", "=", " ", "0", "\n", " ", " ", "z", " ", "(", "1", ",", "1", ")", " ", "d", " ", "=", " ", "0", "\n", " ", " ", "e", "n", "d", "\n">>

\* a function with a docstring; one without; one whose arguments block
\* names z, which the signature does not; a class; a script
SrcGood(n) ==
    [label |-> "function", text |-> SigText(n) \o DocText \o BodyText,
     toks |-> SigNamed(n) \o DocLines(1) \o BodyToks]
SrcNoDoc(n) ==
    [label |-> "function without docstring", text |-> SigText(n) \o BodyText, toks |-> SigNamed(n) \o BodyToks]
SrcUnknownArg(n) ==
    [label |-> "function with unknown argument", text |-> SigText(n) \o DocText \o UnknownArgText \o BodyText,
     toks |-> SigNamed(n) \o DocLines(1) \o UnknownArgBlock \o BodyToks]
SrcClass(n) ==
    [label |-> "class", text |-> Classdef \o <<" ">> \o n \o <<"\n", "e", "n", "d", "\n">>, toks |-> <<>>]
SrcScript == [label |-> "script", text |-> LineStatement, toks |-> <<>>]

FileSystems ==
    {(<<Pkg, NameF>> :> Stored(<<Pkg, NameF>>, cf))
     @@ (<<Pkg, NameG>> :> Stored(<<Pkg, NameG>>, cg)) @@ rest :
        cf \in {SrcGood(NameF), SrcNoDoc(NameF), SrcUnknownArg(NameF), SrcClass(NameF)},
        cg \in {SrcGood(NameG), SrcScript},
        rest \in {<<>>, <<NameB>> :> Stored(<<NameB>>, SrcClass(NameB)),
                  <<NameB>> :> Stored(<<NameB>>, SrcGood(NameB))}}

\* the names asked for, and the bases of the class whose bases are resolved
ObjNames == {<<Pkg>>, <<Pkg, NameF>>, <<Pkg, NameG>>, <<Pkg, NameApp>>,
             <<Pkg, NameH>>, <<NameB>>}
MemberNames == {NameF, NameG, NameB, NameH}
ClassBases == <<NameB>>

InitImport ==
    /\ im_fs \in FileSystems
    /\ im_w = [modules |-> <<>>, parses |-> [p \in DOMAIN im_fs |-> 0]]
    /\ im_last = [op |-> "none", arg |-> <<>>, exc |-> "none", value |-> None]
    /\ LitIdle
    /\ FnIdle
    /\ MfIdle
    /\ ClIdle
    /\ DsIdle
    /\ PpIdle

\* the call returned or raised, r being its outcome
Called(op, arg, r) ==
    /\ \A p \in DOMAIN r.w.parses : r.w.parses[p] <= MaxParses
    /\ im_w' = r.w
    /\ im_last' = [op |-> op, arg |-> arg, exc |-> r.exc, value |-> r.value]
    /\ UNCHANGED <<im_fs, vars_lit, vars_fn, vars_mf, vars_cl, vars_ds, vars_pp>>

Matlabify ==
    \E objname \in ObjNames :
        Called("matlabify", objname, matlabify(im_w, im_fs, objname))

Getter ==
    \E package \in DOMAIN im_w.modules, name \in MemberNames :
        Called("getter", <<package, name>>,
               MatModule_getter(im_w, im_fs, package, name))

SafeGetmembers ==
    \E package \in DOMAIN im_w.modules :
        \E order \in Orders(Listing(im_fs, im_w.modules[package].path)) :
            Called("safe_getmembers", package,
                   safe_getmembers(im_w, im_fs, package, order))

Bases == Called("bases", ClassBases, MatClass_bases(im_w, im_fs, ClassBases))

NextImport == Matlabify \/ Getter \/ SafeGetmembers \/ Bases

SpecImport == InitImport /\ [][NextImport]_vars

\* C1: in one build each source file is parsed at most once, and a request
\* that returns the entity of a file returns the one its first parse built.
C1_EachFileParsedOnce ==
    /\ \A p \in DOMAIN im_w.parses : im_w.parses[p] <= 1
    /\ (im_last.op \in {"matlabify", "getter"} /\ im_last.value # None)
           => im_last.value[1].serial <= 1

\* the import of the file at p, taken alone, succeeds
ImportsAlone(fs, p) == fs[p].built.exc = "none"

\* C2: safe_getmembers completes whatever the member files hold, and its
\* result has every member whose own import succeeds: the failure of one
\* file's import does not leave that import.
C2_MemberFailureContained ==
    im_last.op = "safe_getmembers" =>
        /\ im_last.exc = "none"
        /\ \A p \in DOMAIN im_fs :
              (Front(p) = im_w.modules[im_last.arg].path /\ ImportsAlone(im_fs, p))
                  => Last(p) \in Keys(im_last.value)

(***************************************************************************)
(* MatMixin and MatClass (mat_types.py 779-1331): the class parser walks   *)
(* a token list by index.  idx is the 0-based index of the source; an      *)
(* access at an index past the end raises IndexError.                      *)
(***************************************************************************)
Off(tokens, idx) == idx >= Len(tokens)
TkAt(tokens, idx) == tokens[idx + 1]
tk_eq(tokens, idx, token) == TkAt(tokens, idx) = token

IsIndentTk(t) == t.k = "Text" /\ t.v \in {<<" ">>, <<"\t">>}
IsWhitespaceTk(t) == t.k \in {"Text", "Whitespace"} /\ t.v \in {<<" ">>, <<"\n">>, <<"\t">>}
IsNewlineTk(t) == t.k \in {"Text", "Whitespace"} /\ t.v = <<"\n">>
is_newline(tokens, idx) == IsNewlineTk(TkAt(tokens, idx))

\* the index at which the loop of _indent stops; an index past the end
\* means that the loop ran off the token list (IndexError)
IndentEnd(tokens, idx) ==
    IF Off(tokens, idx) THEN idx
    ELSE SetMin({j \in idx..Len(tokens) : j = Len(tokens) \/ ~IsIndentTk(tokens[j + 1])})

\* the same for the loop of _whitespace
WhitespaceEnd(tokens, idx) ==
    IF Off(tokens, idx) THEN idx
    ELSE SetMin({j \in idx..Len(tokens) : j = Len(tokens) \/ ~IsWhitespaceTk(tokens[j + 1])})

\* the values of the tokens at indexes i..j-1, concatenated
RECURSIVE ConcatValues(_, _, _)
ConcatValues(tokens, i, j) ==
    IF i >= j THEN <<>> ELSE TkAt(tokens, i).v \o ConcatValues(tokens, i + 1, j)

Adv(s, idx) == [s EXCEPT !.idx = idx]
Inc(s) == IF s.exc # "none" THEN s ELSE Adv(s, s.idx + 1)
\* self.tokens[idx]
Need(tokens, s) ==
    IF s.exc = "none" /\ Off(tokens, s.idx) THEN Raise(s, "IndexError") ELSE s
\* idx += self._blanks(idx)
Blanks(tokens, s) ==
    IF s.exc # "none" THEN s
    ELSE IF Off(tokens, IndentEnd(tokens, s.idx)) THEN Raise(s, "IndexError")
    ELSE Adv(s, IndentEnd(tokens, s.idx))
\* idx += self._whitespace(idx)
Whitespace(tokens, s) ==
    IF s.exc # "none" THEN s
    ELSE IF Off(tokens, WhitespaceEnd(tokens, s.idx)) THEN Raise(s, "IndexError")
    ELSE Adv(s, WhitespaceEnd(tokens, s.idx))

cls_attr_types ==
    {<<"A", "b", "s", "t", "r", "a", "c", "t">>, <<"A", "l", "l", "o", "w", "e", "d", "S", "u", "b", "c", "l", "a", "s", "s", "e", "s">>, <<"C", "o", "n", "s", "t", "r", "u", "c", "t", "O", "n", "L", "o", "a", "d">>, <<"H", "a", "n", "d", "l", "e", "C", "o", "m", "p", "a", "t", "i", "b", "l", "e">>,
     <<"H", "i", "d", "d", "e", "n">>, <<"I", "n", "f", "e", "r", "i", "o", "r", "C", "l", "a", "s", "s", "e", "s">>, <<"S", "e", "a", "l", "e", "d">>}
prop_attr_types ==
    {<<"A", "b", "o", "r", "t", "S", "e", "t">>, <<"A", "b", "s", "t", "r", "a", "c", "t">>, <<"A", "c", "c", "e", "s", "s">>, <<"C", "o", "n", "s", "t", "a", "n", "t">>, <<"D", "e", "p", "e", "n", "d", "e", "n", "t">>, <<"G", "e", "t", "A", "c", "c", "e", "s", "s">>,
     <<"G", "e", "t", "O", "b", "s", "e", "r", "v", "a", "b", "l", "e">>, <<"H", "i", "d", "d", "e", "n">>, <<"N", "o", "n", "C", "o", "p", "y", "a", "b", "l", "e">>, <<"S", "e", "t", "A", "c", "c", "e", "s", "s">>, <<"S", "e", "t", "O", "b", "s", "e", "r", "v", "a", "b", "l", "e">>,
     <<"T", "r", "a", "n", "s", "i", "e", "n", "t">>, <<"C", "l", "a", "s", "s", "S", "e", "t", "u", "p", "P", "a", "r", "a", "m", "e", "t", "e", "r">>, <<"M", "e", "t", "h", "o", "d", "S", "e", "t", "u", "p", "P", "a", "r", "a", "m", "e", "t", "e", "r">>, <<"T", "e", "s", "t", "P", "a", "r", "a", "m", "e", "t", "e", "r">>}
meth_attr_types ==
    {<<"A", "b", "s", "t", "r", "a", "c", "t">>, <<"A", "c", "c", "e", "s", "s">>, <<"H", "i", "d", "d", "e", "n">>, <<"S", "e", "a", "l", "e", "d">>, <<"S", "t", "a", "t", "i", "c">>, <<"T", "e", "s", "t">>,
     <<"T", "e", "s", "t", "C", "l", "a", "s", "s", "S", "e", "t", "u", "p">>, <<"T", "e", "s", "t", "M", "e", "t", "h", "o", "d", "S", "e", "t", "u", "p">>, <<"T", "e", "s", "t", "C", "l", "a", "s", "s", "T", "e", "a", "r", "d", "o", "w", "n">>,
     <<"T", "e", "s", "t", "M", "e", "t", "h", "o", "d", "T", "e", "a", "r", "d", "o", "w", "n">>, <<"P", "a", "r", "a", "m", "e", "t", "e", "r", "C", "o", "m", "b", "i", "n", "a", "t", "i", "o", "n">>}

\* attribute values: True/False, a string, or a list of strings
AttrBool(b) == [t |-> "bool", b |-> b, s |-> <<>>, l |-> <<>>]
AttrStr(s) == [t |-> "str", b |-> FALSE, s |-> s, l |-> <<>>]
AttrList(l) == [t |-> "list", b |-> FALSE, s |-> <<>>, l |-> l]

\* d[key] = value on a dict kept as a sequence of entries in insertion order
HasKey(d, key) == \E i \in 1..Len(d) : d[i].name = key
DictSet(d, key, entry) ==
    IF HasKey(d, key)
    THEN [i \in 1..Len(d) |-> IF d[i].name = key THEN entry ELSE d[i]]
    ELSE Append(d, entry)
AttrSet(d, key, val) == DictSet(d, key, [name |-> key, val |-> val])

\* MatClass.attributes, lines 1242-1331.  a = [idx, dict, name, exc]
NewAttrs(idx) == [idx |-> idx, dict |-> <<>>, name |-> <<>>, exc |-> "none"]

\* lines 1291-1296: the end of an enumeration or meta class value
EnumStops == {Tok("Text", <<" ">>), Tok("Text", <<"\t">>),
              Tok("Punctuation", <<",">>), Tok("Punctuation", <<")">>)}
EnumEnd(tokens, idx) ==
    IF Off(tokens, idx) THEN idx
    ELSE SetMin({j \in idx..Len(tokens) : j = Len(tokens) \/ tokens[j + 1] \in EnumStops})

\* lines 1286-1299, j the index of the first token of the value
AttrsEnum(tokens, a, j, e) ==
    IF Off(tokens, e) THEN Raise(a, "IndexError")
    ELSE [a EXCEPT !.idx = IF tk_eq(tokens, e, Tok("Punctuation", <<")">>)) THEN e ELSE e + 1,
                   !.dict = AttrSet(@, a.name, AttrStr(ConcatValues(tokens, j, e)))]

\* line 1310: the end of one value of a cell array
CellStops == {Tok("Punctuation", <<",">>), Tok("Punctuation", <<"}">>)}
CellValueEnd(tokens, idx) ==
    IF Off(tokens, idx) THEN idx
    ELSE SetMin({j \in idx..Len(tokens) : j = Len(tokens) \/ tokens[j + 1] \in CellStops})

CellAppend(d, key, val) ==
    [i \in 1..Len(d) |-> IF d[i].name = key
                         THEN [d[i] EXCEPT !.val.l = Append(@, val)] ELSE d[i]]

\* lines 1305-1317: the values of a cell array, a.idx at the head of the loop
RECURSIVE AttrsCell(_, _)
AttrsCellValue(tokens, a, b, e) ==
    IF Off(tokens, b) \/ Off(tokens, e) THEN Raise(a, "IndexError")
    ELSE AttrsCell(tokens,
            [a EXCEPT !.idx = IF tk_eq(tokens, e, Tok("Punctuation", <<",">>)) THEN e + 1 ELSE e,
                      !.dict = IF e > b THEN CellAppend(@, a.name, ConcatValues(tokens, b, e))
                               ELSE @])
AttrsCellFrom(tokens, a, b) == AttrsCellValue(tokens, a, b, CellValueEnd(tokens, b))
AttrsCell(tokens, a) ==
    IF Off(tokens, a.idx) THEN Raise(a, "IndexError")
    ELSE IF tk_eq(tokens, a.idx, Tok("Punctuation", <<"}">>)) THEN Adv(a, a.idx + 1)
    ELSE AttrsCellFrom(tokens, a, IndentEnd(tokens, a.idx))

\* lines 1318-1323: a string value lexed as two String tokens
AttrsString(tokens, a, j) ==
    IF Off(tokens, j + 1) THEN Raise(a, "IndexError")
    ELSE IF TkAt(tokens, j + 1).k = "String"
    THEN [a EXCEPT !.idx = j + 2,
                   !.dict = AttrSet(@, a.name, AttrStr(Strip(
                       TkAt(tokens, j).v \o TkAt(tokens, j).v \o TkAt(tokens, j + 1).v,
                       {"'"})))]
    ELSE Adv(a, j)

\* lines 1278-1323: the value after `=`, j the index after the blanks
AttrsValue(tokens, a, j) ==
    IF Off(tokens, j) THEN Raise(a, "IndexError")
    ELSE IF TkAt(tokens, j).k = "Name" /\ TkAt(tokens, j).v \in {<<"t", "r", "u", "e">>, <<"f", "a", "l", "s", "e">>}
    THEN [a EXCEPT !.idx = j + 1,
                   !.dict = IF TkAt(tokens, j).v = <<"f", "a", "l", "s", "e">>
                            THEN AttrSet(@, a.name, AttrBool(FALSE)) ELSE @]
    ELSE IF TkAt(tokens, j).k = "Name" \/ tk_eq(tokens, j, Tok("Text", <<"?">>))
    THEN AttrsEnum(tokens, a, j, EnumEnd(tokens, j + 1))
    ELSE IF tk_eq(tokens, j, Tok("Punctuation", <<"{">>))
    THEN AttrsCell(tokens, [a EXCEPT !.idx = j + 1,
                                     !.dict = AttrSet(@, a.name, AttrList(<<>>))])
    ELSE IF TkAt(tokens, j).k = "String" THEN AttrsString(tokens, a, j)
    ELSE Adv(a, j)

RECURSIVE AttrsLoop(_, _, _)
\* lines 1326-1329, i the index after the blanks that follow the value
AttrsComma(tokens, attr_types, a, i) ==
    IF Off(tokens, i) THEN Raise(a, "IndexError")
    ELSE AttrsLoop(tokens, attr_types,
                   Adv(a, IF tk_eq(tokens, i, Tok("Punctuation", <<",">>)) THEN i + 1 ELSE i))
AttrsValueDone(tokens, attr_types, a) ==
    IF a.exc # "none" THEN a
    ELSE AttrsComma(tokens, attr_types, a, IndentEnd(tokens, a.idx))

\* lines 1265-1329, idx0 the index at the head of the iteration and i2 the
\* index after the name and the blanks.  An iteration that moves nothing is
\* repeated forever.
AttrsAfterName(tokens, attr_types, a, idx0, i2) ==
    IF Off(tokens, i2) THEN Raise(a, "IndexError")
    ELSE IF TkAt(tokens, i2).k = "Name.Builtin" \/ tk_eq(tokens, i2, Tok("Punctuation", <<",">>))
    THEN AttrsLoop(tokens, attr_types, Adv(a, i2 + 1))
    ELSE IF tk_eq(tokens, i2, Tok("Punctuation", <<"=">>))
    THEN AttrsValueDone(tokens, attr_types,
                        AttrsValue(tokens, a, IndentEnd(tokens, i2 + 1)))
    ELSE IF i2 = idx0 THEN Raise(a, "Hang")
    ELSE AttrsLoop(tokens, attr_types, Adv(a, i2))

\* lines 1253-1263, b the index after the blanks
AttrsName(tokens, attr_types, a, b) ==
    IF Off(tokens, b) THEN Raise(a, "IndexError")
    ELSE AttrsAfterName(tokens, attr_types,
            [a EXCEPT !.name = TkAt(tokens, b).v,
                      !.dict = IF TkAt(tokens, b).k = "Name" /\ TkAt(tokens, b).v \in attr_types
                               THEN AttrSet(@, TkAt(tokens, b).v, AttrBool(TRUE)) ELSE @],
            a.idx,
            IndentEnd(tokens, IF TkAt(tokens, b).k = "Name" THEN b + 1 ELSE b))

\* line 1252: the loop over the attributes, a.idx at its head
AttrsLoop(tokens, attr_types, a) ==
    IF a.exc # "none" THEN a
    ELSE IF Off(tokens, a.idx) THEN Raise(a, "IndexError")
    ELSE IF tk_eq(tokens, a.idx, Tok("Punctuation", <<")">>)) THEN Adv(a, a.idx + 1)
    ELSE AttrsName(tokens, attr_types, a, IndentEnd(tokens, a.idx))

AttrsOpen(tokens, attr_types, i) ==
    IF Off(tokens, i) THEN Raise(NewAttrs(i), "IndexError")
    ELSE IF tk_eq(tokens, i, Tok("Punctuation", <<"(">>))
    THEN AttrsLoop(tokens, attr_types, NewAttrs(i + 1))
    ELSE NewAttrs(i)
attributes(tokens, idx, attr_types) == AttrsOpen(tokens, attr_types, IndentEnd(tokens, idx))

\* skip_whitespace, lines 1422-1426: m is the token list of the method and n
\* the number of tokens popped so far; the result is the new n
IsSkippedTk(t) == t.k = "Whitespace" \/ (t.k = "Text" /\ t.v \in {<<" ">>, <<"\t">>})
skip_whitespace(m, n) ==
    IF n >= Len(m) THEN n
    ELSE SetMin({j \in n..Len(m) : j = Len(m) \/ ~IsSkippedTk(m[j + 1])})

\* MatFunctionOld.__init__ as MatMethod calls it (name None), lines 1443-1602
NewMethod ==
    [name |-> None, docstring |-> <<>>, retv |-> None, args |-> None,
     rem_tks |-> None, exc |-> "none"]

mat_kws == {Tok("Keyword", <<"a", "r", "g", "u", "m", "e", "n", "t", "s">>), Tok("Keyword", <<"f", "o", "r">>), Tok("Keyword", <<"i", "f">>),
            Tok("Keyword", <<"s", "w", "i", "t", "c", "h">>), Tok("Keyword", <<"t", "r", "y">>), Tok("Keyword", <<"w", "h", "i", "l", "e">>),
            Tok("Keyword", <<"p", "a", "r", "f", "o", "r">>)}

\* lines 1572-1595: the keyword-end count.  The loop starts at the token
\* m[n] and counts over the tokens it pops.
IsOpeningKw(t) == t \in mat_kws \/ (t.k = "Keyword" /\ Strip(t.v, WhiteChars) = <<"f", "u", "n", "c", "t", "i", "o", "n">>)
\* lastkw when the token m[i] is looked at
LastKwAt(m, n, i) ==
    Cardinality({x \in n..(i - 1) : m[x] \in {Tok("Punctuation", <<"(">>), Tok("Punctuation", <<"{">>)}})
    - Cardinality({x \in n..(i - 1) : m[x] \in {Tok("Punctuation", <<")">>), Tok("Punctuation", <<"}">>)}})
\* kw_end after the token m[j] has been counted
KwEndAfter(m, n, j) ==
    1 + Cardinality({i \in n..j : IsOpeningKw(m[i])})
      - Cardinality({i \in n..j : m[i] = Tok("Keyword", <<"e", "n", "d">>) /\ LastKwAt(m, n, i) = 0})
\* the number of tokens the method takes: the loop pops one token more
\* after the closing `end` and pushes the last token back; when the pop
\* finds the list empty the last token is pushed back all the same
OldBodyLoop(m, n) ==
    IF \E j \in n..(Len(m) - 1) : KwEndAfter(m, n, j) <= 0
    THEN SetMin({j \in n..(Len(m) - 1) : KwEndAfter(m, n, j) <= 0})
    ELSE Len(m) - 1

\* lines 1570-1602
OldBody(m, f, n, kw) ==
    [f EXCEPT !.rem_tks = Some(Len(m) - OldBodyLoop(m, n))]

\* line 1560: the blanks popped after the newline of a comment line; the
\* result is the 1-based index of the token the loop stops at
OldDocNext(m, j) ==
    SetMin({e \in j..Len(m) : e = Len(m) \/ ~IsIndentTk(m[e])})

\* lines 1546-1565, docstring the token under test and n the tokens popped
RECURSIVE OldDocLoop(_, _, _, _)
OldDocLine(m, f, n, docstring) ==
    IF n >= Len(m) THEN OldBody(m, f, n, docstring)
    ELSE IF n + 1 >= Len(m)
    THEN OldBody(m, [f EXCEPT !.docstring = IF IsNewlineTk(m[n + 1]) THEN @ \o <<"\n">> ELSE @],
                 n + 1, docstring)
    ELSE OldDocLoop(m, [f EXCEPT !.docstring = IF IsNewlineTk(m[n + 1]) THEN @ \o <<"\n">> ELSE @],
                    OldDocNext(m, n + 2), m[OldDocNext(m, n + 2)])
OldDocLoop(m, f, n, docstring) ==
    IF docstring.k # "Comment" THEN OldBody(m, f, n, docstring)
    ELSE OldDocLine(m, [f EXCEPT !.docstring = @ \o LStrip(docstring.v, {"%"})], n, docstring)

\* lines 1539-1571
OldDoc(m, f, n) ==
    IF n >= Len(m) THEN f
    ELSE OldDocLoop(m, f, n + 1, m[n + 1])

\* lines 1533-1539, q the tokens popped before the closing parenthesis
OldArgsClose(m, f, q) ==
    IF q >= Len(m) THEN Raise(f, "IndexError")
    ELSE IF m[q + 1] # Tok("Punctuation", <<")">>) THEN f
    ELSE OldDoc(m, f, skip_whitespace(m, q + 1))

\* lines 1520-1539, n the tokens popped before the opening parenthesis
OldArgs(m, f, n) ==
    IF n >= Len(m) THEN Raise(f, "IndexError")
    ELSE IF m[n + 1] # Tok("Punctuation", <<"(">>) THEN OldDoc(m, f, skip_whitespace(m, n + 1))
    ELSE IF n + 1 >= Len(m) THEN Raise(f, "IndexError")
    ELSE IF m[n + 2].k = "Text"
    THEN OldArgsClose(m, [f EXCEPT !.args = Some(StripAll(Split(m[n + 2].v, ",")))], n + 2)
    ELSE IF m[n + 2] = Tok("Punctuation", <<")">>) THEN OldArgsClose(m, f, n + 1)
    ELSE OldArgsClose(m, f, n + 2)

\* lines 1508-1512: a method takes the name of the signature
OldName(m, f, n) ==
    IF n >= Len(m) THEN Raise(f, "IndexError")
    ELSE OldArgs(m, [f EXCEPT !.name = Some(Strip(m[n + 1].v, {" ", "(", ")"}))], n + 1)

\* lines 1488-1496
OldRetvSplit(rv) ==
    IF Len(rv) # 1 THEN Some(rv)
    ELSE IF rv[1] = <<>> THEN None
    ELSE IF Contains(rv[1], " ") \/ Contains(rv[1], "\t")
    THEN Some(Concat([i \in 1..Len(Split(rv[1], "\t")) |-> Split(Split(rv[1], "\t")[i], " ")]))
    ELSE Some(rv)
OldRetv(v) == OldRetvSplit(StripAll(Split(Strip(v, {"[", " ", "]"}), ",")))

\* lines 1486-1505, n the tokens popped before the return values
OldReturn(m, f, n) ==
    IF n >= Len(m) THEN Raise(f, "IndexError")
    ELSE IF m[n + 1].k = "Text"
    THEN IF n + 1 >= Len(m) THEN Raise([f EXCEPT !.retv = OldRetv(m[n + 1].v)], "IndexError")
         ELSE IF m[n + 2] # Tok("Punctuation", <<"=">>) THEN [f EXCEPT !.retv = OldRetv(m[n + 1].v)]
         ELSE OldName(m, [f EXCEPT !.retv = OldRetv(m[n + 1].v)], skip_whitespace(m, n + 2))
    ELSE IF m[n + 1].k = "Name.Function" THEN OldName(m, f, n)
    ELSE OldName(m, f, n + 1)

\* the IndexError of a pop is caught at line 1596; the stack is empty then
\* and rem_tks stays None
OldCaught(f) == IF f.exc = "IndexError" THEN [f EXCEPT !.exc = "none", !.rem_tks = None] ELSE f

MatFunctionOld_init(m) ==
    IF m = <<>> THEN OldCaught(Raise(NewMethod, "IndexError"))
    ELSE OldCaught(OldReturn(m, NewMethod, skip_whitespace(m, 1)))

\* MatMethod.__init__, lines 1625-1629; attrs is the attribute dict of the block
MatMethod_init(tks, attrs) ==
    [meth |-> MatFunctionOld_init(tks), len |-> Len(tks), attrs |-> attrs]

\* MatClass.__init__, lines 887-1240.  s is the object under construction
\* with the locals idx, prop_name and attr_dict; exc is "none" while the
\* parse runs, "IndexError" once the except clause of line 1235 is due and
\* "Return" after the return of line 1109.
NewClass(name) ==
    [name |-> name, idx |-> 1, exc |-> "none", attrs |-> <<>>, bases |-> <<>>,
     docstring |-> <<>>, properties |-> <<>>, methods |-> <<>>,
     prop_name |-> <<>>, attr_dict |-> <<>>, default |-> <<>>]

\* lines 913-922: class attributes and class name
ClassAttrsGot(s, a) ==
    IF a.exc # "none" THEN Raise(s, a.exc)
    ELSE [s EXCEPT !.attrs = a.dict, !.idx = a.idx]
ClassName(tokens, s) ==
    Blanks(tokens, Inc(Blanks(tokens, ClassAttrsGot(s, attributes(tokens, 1, cls_attr_types)))))

\* line 932: the index at which a base name ends
BaseNameEnd(tokens, idx) ==
    IF Off(tokens, idx) THEN idx
    ELSE SetMin({j \in idx..Len(tokens) : j = Len(tokens) \/ IsWhitespaceTk(tokens[j + 1])})

\* lines 928-944: the super classes, s.idx at the head of the loop
RECURSIVE SuperLoop(_, _)
SuperNext(tokens, s) ==
    IF s.exc # "none" THEN s
    ELSE SuperLoop(tokens, IF tk_eq(tokens, s.idx, Tok("Operator", <<"&">>)) THEN Inc(s) ELSE s)
SuperNameGot(tokens, s, e) ==
    IF Off(tokens, e) \/ Off(tokens, WhitespaceEnd(tokens, e))
    THEN Raise(Adv(s, e), "IndexError")
    ELSE SuperNext(tokens, Blanks(tokens,
            [s EXCEPT !.idx = IF is_newline(tokens, e) THEN e ELSE e + 1,
                      !.bases = IF ConcatValues(tokens, s.idx, e) # <<>>
                                THEN Append(@, ConcatValues(tokens, s.idx, e)) ELSE @]))
SuperName(tokens, s) ==
    IF s.exc # "none" THEN s ELSE SuperNameGot(tokens, s, BaseNameEnd(tokens, s.idx))
SuperLoop(tokens, s) ==
    IF s.exc # "none" THEN s
    ELSE IF Off(tokens, s.idx) THEN Raise(s, "IndexError")
    ELSE IF is_newline(tokens, s.idx) THEN Inc(s)
    ELSE SuperName(tokens, Blanks(tokens, s))

\* lines 925-947
SuperClasses(tokens, s) ==
    IF s.exc # "none" THEN s
    ELSE IF tk_eq(tokens, s.idx, Tok("Operator", <<"<">>)) THEN SuperLoop(tokens, Inc(s))
    ELSE IF is_newline(tokens, s.idx) THEN Inc(s)
    ELSE s

\* lines 950-961: the docstring of the class
RECURSIVE ClassDocLoop(_, _)
ClassDocNewline(tokens, s) ==
    IF s.exc # "none" THEN s
    ELSE IF is_newline(tokens, s.idx)
    THEN ClassDocLoop(tokens, Blanks(tokens,
            [s EXCEPT !.docstring = @ \o TkAt(tokens, s.idx).v, !.idx = @ + 1]))
    ELSE ClassDocLoop(tokens, Blanks(tokens, s))
ClassDocLoop(tokens, s) ==
    IF s.exc # "none" THEN s
    ELSE IF TkAt(tokens, s.idx).k # "Comment" THEN s
    ELSE ClassDocNewline(tokens, Need(tokens,
            [s EXCEPT !.docstring = @ \o LStrip(TkAt(tokens, s.idx).v, {"%"}), !.idx = @ + 1]))
ClassDoc(tokens, s) == ClassDocLoop(tokens, Blanks(tokens, s))

\* lines 967-973 and 1181-1187: comments and white space are skipped
IsSkippedInBody(t) == IsWhitespaceTk(t) \/ t.k = "Comment"
SkipEnd(tokens, idx) ==
    IF Off(tokens, idx) THEN idx
    ELSE SetMin({j \in idx..Len(tokens) : j = Len(tokens) \/ ~IsSkippedInBody(tokens[j + 1])})
\* the index idx holds when the skip runs off the end: the start of the white
\* space it was counting
TrailStart(tokens, idx) ==
    SetMin({j \in idx..Len(tokens) : \A i \in j..(Len(tokens) - 1) : IsWhitespaceTk(tokens[i + 1])})
SkipWsComments(tokens, s) ==
    IF s.exc # "none" THEN s
    ELSE IF Off(tokens, SkipEnd(tokens, s.idx))
    THEN Raise(Adv(s, IF Off(tokens, s.idx) THEN s.idx ELSE TrailStart(tokens, s.idx)), "IndexError")
    ELSE Adv(s, SkipEnd(tokens, s.idx))

\* a property's dict: default and docstring are None when the key is
\* absent, Some(None) when it holds None and Some(Some(text)) otherwise
NewProperty(name, attrs) ==
    [name |-> name, attrs |-> attrs, default |-> None, docstring |-> None]
PropIndex(props, name) == CHOOSE i \in 1..Len(props) : props[i].name = name

\* lines 1038-1050: size, class and function specifiers are skipped
ExtraPuncts == {<<"@">>, <<"(">>, <<")">>, <<",">>, <<":">>, <<"{">>, <<"}">>, <<".">>}
IsExtra(t) ==
    \/ t.k = "Punctuation" /\ t.v \in ExtraPuncts
    \/ t.k \in {"Integer", "String", "Name", "Text"}
ExtrasEnd(tokens, idx) ==
    IF Off(tokens, idx) THEN idx
    ELSE SetMin({j \in idx..Len(tokens) : j = Len(tokens) \/ ~IsExtra(tokens[j + 1])})
ExtrasSkip(tokens, s) ==
    IF Off(tokens, ExtrasEnd(tokens, s.idx))
    THEN Raise(Adv(s, ExtrasEnd(tokens, s.idx)), "IndexError")
    ELSE Adv(s, ExtrasEnd(tokens, s.idx))

StartsWithDots(v) == Len(v) >= 3 /\ SubSeq(v, 1, 3) = <<".", ".", ".">>

\* lines 1123-1151: the default value, s.default the text read so far
RECURSIVE DefaultLoop(_, _, _)
DefaultEllipsis(tokens, s, punc_ctr) ==
    IF Off(tokens, s.idx) THEN Raise(s, "IndexError")
    ELSE IF is_newline(tokens, s.idx)
    THEN DefaultLoop(tokens, [s EXCEPT !.default = @ \o <<"\n">>, !.idx = @ + 1], punc_ctr)
    ELSE DefaultLoop(tokens, s, punc_ctr)
DefaultAfterNewline(tokens, s, punc_ctr, b) ==
    IF Off(tokens, b) THEN Raise(s, "IndexError")
    ELSE IF b = s.idx THEN Raise(s, "Hang")
    ELSE DefaultLoop(tokens, Adv(s, b), punc_ctr)
DefaultToken(tokens, s, punc_ctr, token) ==
    IF token \in {Tok("Punctuation", <<"(">>), Tok("Punctuation", <<"{">>), Tok("Punctuation", <<"[">>)}
    THEN DefaultLoop(tokens, [s EXCEPT !.default = @ \o token.v, !.idx = @ + 1], punc_ctr + 1)
    ELSE IF token \in {Tok("Punctuation", <<")">>), Tok("Punctuation", <<"}">>), Tok("Punctuation", <<"]">>)}
    THEN DefaultLoop(tokens, [s EXCEPT !.default = @ \o token.v, !.idx = @ + 1], punc_ctr - 1)
    ELSE IF token.k = "Comment" /\ StartsWithDots(token.v)
    THEN DefaultEllipsis(tokens, Inc(s), punc_ctr)
    ELSE IF is_newline(tokens, s.idx - 1)
    THEN DefaultAfterNewline(tokens, s, punc_ctr, IndentEnd(tokens, s.idx))
    ELSE DefaultLoop(tokens, [s EXCEPT !.default = @ \o token.v, !.idx = @ + 1], punc_ctr)
DefaultLoop(tokens, s, punc_ctr) ==
    IF s.exc # "none" THEN s
    ELSE IF Off(tokens, s.idx) THEN Raise(s, "IndexError")
    ELSE IF \/ ~is_newline(tokens, s.idx) /\ TkAt(tokens, s.idx).k # "Comment"
            \/ punc_ctr > 0
            \/ TkAt(tokens, s.idx).k = "Comment" /\ StartsWithDots(TkAt(tokens, s.idx).v)
    THEN DefaultToken(tokens, s, punc_ctr, TkAt(tokens, s.idx))
    ELSE s

RECURSIVE PropsLoop(_, _)

\* lines 1159-1170: the docstring after the property
PropsDocstring(tokens, s) ==
    IF s.exc # "none" THEN s
    ELSE IF Off(tokens, s.idx) THEN Raise(s, "IndexError")
    ELSE IF s.properties[PropIndex(s.properties, s.prop_name)].docstring = None
    THEN PropsLoop(tokens, Whitespace(tokens,
            IF TkAt(tokens, s.idx).k = "Comment"
            THEN [s EXCEPT !.properties[PropIndex(s.properties, s.prop_name)].docstring =
                               Some(Some(LStrip(TkAt(tokens, s.idx).v, {"%"}))),
                           !.idx = @ + 1]
            ELSE [s EXCEPT !.properties[PropIndex(s.properties, s.prop_name)].docstring =
                               Some(None)]))
    ELSE PropsLoop(tokens, Whitespace(tokens,
            IF TkAt(tokens, s.idx).k = "Comment" THEN Inc(s) ELSE s))

\* line 1156: self.properties[prop_name].update(default); update is None
\* when the default read is the empty string, which updates nothing
PropsUpdate(tokens, s, update) ==
    IF s.exc # "none" THEN s
    ELSE IF ~HasKey(s.properties, s.prop_name) THEN Raise(s, "KeyError")
    ELSE IF update = None THEN PropsDocstring(tokens, s)
    ELSE PropsDocstring(tokens,
            [s EXCEPT !.properties[PropIndex(s.properties, s.prop_name)].default = update[1]])

\* lines 1152-1155
PropsDefaultGot(tokens, s) ==
    IF s.exc # "none" THEN s
    ELSE PropsUpdate(tokens,
            IF TkAt(tokens, s.idx).k # "Comment" THEN Inc(s) ELSE s,
            IF s.default # <<>> THEN Some(Some(Some(RStrip(s.default, {";", " "})))) ELSE None)

\* lines 1110-1156, s.idx after the blanks
PropsDefault(tokens, s) ==
    IF s.exc # "none" THEN s
    ELSE IF tk_eq(tokens, s.idx, Tok("Punctuation", <<"=">>))
    THEN PropsDefaultGot(tokens,
            DefaultLoop(tokens, Blanks(tokens, [s EXCEPT !.idx = @ + 1, !.default = <<>>]), 0))
    ELSE PropsUpdate(tokens, s, Some(Some(None)))

\* lines 1088-1105: a semicolon
PropsSemiFill(p) ==
    [p EXCEPT !.default = IF @ = None THEN Some(None) ELSE @,
              !.docstring = IF @ = None THEN Some(None) ELSE @]
PropsSemi(tokens, s) ==
    IF s.exc # "none" THEN s
    ELSE IF is_newline(tokens, s.idx)
    THEN IF ~HasKey(s.properties, s.prop_name) THEN Raise(s, "KeyError")
         ELSE PropsLoop(tokens,
                [s EXCEPT !.idx = @ + 1,
                          !.properties[PropIndex(s.properties, s.prop_name)] = PropsSemiFill(@)])
    ELSE IF TkAt(tokens, s.idx).k = "Comment"
    THEN IF ~HasKey(s.properties, s.prop_name) THEN Raise(s, "KeyError")
         ELSE PropsDefault(tokens, Blanks(tokens,
                [s EXCEPT !.idx = @ + 1,
                          !.properties[PropIndex(s.properties, s.prop_name)].docstring =
                              Some(Some(LStrip(TkAt(tokens, s.idx).v, {"%"}) \o <<"\n">>))]))
    ELSE PropsDefault(tokens, Blanks(tokens, s))

\* lines 1052-1053 and 1081-1082
PropsNamed(tokens, s) ==
    IF s.exc # "none" THEN s
    ELSE IF tk_eq(tokens, s.idx, Tok("Punctuation", <<";">>)) THEN PropsLoop(tokens, s)
    ELSE PropsDefault(tokens, Blanks(tokens, s))

NameSubtypes == {"Name.Function", "Name.Builtin"}

\* lines 1029-1109: one declaration, s.idx at its first token
PropsLine(tokens, s) ==
    IF s.exc # "none" THEN s
    ELSE IF Off(tokens, s.idx) THEN Raise(s, "IndexError")
    ELSE IF TkAt(tokens, s.idx).k = "Name"
    THEN PropsNamed(tokens, ExtrasSkip(tokens,
            [s EXCEPT !.prop_name = TkAt(tokens, s.idx).v, !.idx = @ + 1,
                      !.properties = IF HasKey(@, TkAt(tokens, s.idx).v) THEN @
                                     ELSE Append(@, NewProperty(TkAt(tokens, s.idx).v, s.attr_dict))]))
    ELSE IF TkAt(tokens, s.idx).k \in NameSubtypes
    THEN PropsNamed(tokens, ExtrasSkip(tokens,
            [s EXCEPT !.prop_name = TkAt(tokens, s.idx).v, !.idx = @ + 1,
                      !.properties = DictSet(@, TkAt(tokens, s.idx).v,
                                             NewProperty(TkAt(tokens, s.idx).v, s.attr_dict))]))
    ELSE IF tk_eq(tokens, s.idx, Tok("Keyword", <<"e", "n", "d">>)) THEN Inc(s)
    ELSE IF tk_eq(tokens, s.idx, Tok("Punctuation", <<";">>))
    THEN PropsSemi(tokens, Blanks(tokens, Inc(s)))
    ELSE Raise(s, "Return")

\* lines 993-1026: the comment lines before a property
RECURSIVE PropDocLoop(_, _, _)
PropDocNamed(tokens, s, docstring) ==
    IF Off(tokens, s.idx) THEN s
    ELSE IF TkAt(tokens, s.idx).k = "Name"
    THEN [s EXCEPT !.prop_name = TkAt(tokens, s.idx).v,
                   !.properties = DictSet(@, TkAt(tokens, s.idx).v,
                        [NewProperty(TkAt(tokens, s.idx).v, s.attr_dict)
                             EXCEPT !.docstring = Some(Some(docstring))])]
    ELSE IF is_newline(tokens, s.idx)
    THEN IF Off(tokens, WhitespaceEnd(tokens, s.idx)) THEN s
         ELSE Adv(s, WhitespaceEnd(tokens, s.idx))
    ELSE PropDocLoop(tokens, s, docstring)
PropDocTry(tokens, s, docstring) ==
    IF s.exc # "none" THEN s
    ELSE IF is_newline(tokens, s.idx)
    THEN IF Off(tokens, IndentEnd(tokens, s.idx + 1)) THEN Inc(s)
         ELSE PropDocNamed(tokens, Adv(s, IndentEnd(tokens, s.idx + 1)), docstring \o <<"\n">>)
    ELSE PropDocNamed(tokens, s, docstring)
PropDocLoop(tokens, s, docstring) ==
    IF s.exc # "none" THEN s
    ELSE IF Off(tokens, s.idx) THEN Raise(s, "IndexError")
    ELSE IF TkAt(tokens, s.idx).k # "Comment" THEN s
    ELSE PropDocTry(tokens, Blanks(tokens, Inc(s)),
                    docstring \o LStrip(TkAt(tokens, s.idx).v, {"%"}))

\* lines 982-1170: the declarations of a properties block, s.idx at the
\* head of the loop
PropsLoop(tokens, s) ==
    IF s.exc # "none" THEN s
    ELSE IF Off(tokens, s.idx) THEN Raise(s, "IndexError")
    ELSE IF tk_eq(tokens, s.idx, Tok("Keyword", <<"e", "n", "d">>)) THEN s
    ELSE PropsLine(tokens, PropDocLoop(tokens, Whitespace(tokens, s), <<>>))

\* lines 976-1171
PropsStart(tokens, s, a) ==
    IF a.exc # "none" THEN Raise(Inc(s), a.exc)
    ELSE Inc(PropsLoop(tokens, [s EXCEPT !.idx = a.idx, !.attr_dict = a.dict,
                                         !.prop_name = <<>>]))
PropertiesBlock(tokens, s) ==
    IF s.exc # "none" THEN s
    ELSE IF Off(tokens, s.idx) THEN Raise(s, "IndexError")
    ELSE IF tk_eq(tokens, s.idx, Tok("Keyword", <<"p", "r", "o", "p", "e", "r", "t", "i", "e", "s">>))
    THEN PropsStart(tokens, s, attributes(tokens, s.idx + 1, prop_attr_types))
    ELSE s

\* lines 1190-1201: the tokens taken for methods defined in separate files
SkippedPuncts == {<<"[">>, <<"]">>, <<"=">>, <<"(">>, <<")">>, <<";">>, <<",">>}
IsFunctionKeyword(t) == t.k = "Keyword" /\ Strip(t.v, WhiteChars) = <<"f", "u", "n", "c", "t", "i", "o", "n">>

RECURSIVE MethLoop(_, _)

\* lines 1212-1217: the method is recorded and its tokens are passed over
MethParsed(tokens, s, r) ==
    IF r.meth.name = None THEN Raise(s, "AttributeError")
    ELSE IF r.meth.rem_tks = None
    THEN Raise([s EXCEPT !.methods =
                    IF Split(r.meth.name[1], ".")[1] \in {<<"g", "e", "t">>, <<"s", "e", "t">>} THEN @
                    ELSE DictSet(@, r.meth.name[1],
                                 [name |-> r.meth.name[1], attrs |-> r.attrs,
                                  docstring |-> r.meth.docstring, retv |-> r.meth.retv,
                                  args |-> r.meth.args, len |-> r.len])],
               "TypeError")
    ELSE MethLoop(tokens, Whitespace(tokens,
            [s EXCEPT !.idx = @ + (r.len - r.meth.rem_tks[1]),
                      !.methods =
                    IF Split(r.meth.name[1], ".")[1] \in {<<"g", "e", "t">>, <<"s", "e", "t">>} THEN @
                    ELSE DictSet(@, r.meth.name[1],
                                 [name |-> r.meth.name[1], attrs |-> r.attrs,
                                  docstring |-> r.meth.docstring, retv |-> r.meth.retv,
                                  args |-> r.meth.args,
                                  len |-> r.len - r.meth.rem_tks[1]])]))

\* line 1204
MethSkip(tokens, s, e) ==
    IF Off(tokens, e) THEN Raise(s, "IndexError") ELSE MethLoop(tokens, Adv(s, e))

\* lines 1189-1217, s.idx at the first token of the item
MethItem(tokens, s) ==
    IF s.exc # "none" THEN s
    ELSE IF \/ TkAt(tokens, s.idx).k \in {"Name", "Name.Function"}
            \/ TkAt(tokens, s.idx).k = "Punctuation" /\ TkAt(tokens, s.idx).v \in SkippedPuncts
    THEN MethSkip(tokens, s, WhitespaceEnd(tokens, s.idx + 1))
    ELSE IF IsFunctionKeyword(TkAt(tokens, s.idx)) /\ Off(tokens, s.idx + 1)
    THEN Raise(s, "IndexError")
    ELSE IF IsFunctionKeyword(TkAt(tokens, s.idx)) /\ TkAt(tokens, s.idx + 1).k = "Name.Function"
    THEN MethSkip(tokens, s, WhitespaceEnd(tokens, s.idx + 1))
    ELSE IF tk_eq(tokens, s.idx, Tok("Keyword", <<"e", "n", "d">>)) THEN Inc(s)
    ELSE MethParsed(tokens, s,
            MatMethod_init(SubSeq(tokens, s.idx + 1, Len(tokens)), s.attr_dict))

\* lines 1179-1217: the items of a methods block, s.idx at the head of the loop
MethLoop(tokens, s) ==
    IF s.exc # "none" THEN s
    ELSE IF Off(tokens, s.idx) THEN Raise(s, "IndexError")
    ELSE IF tk_eq(tokens, s.idx, Tok("Keyword", <<"e", "n", "d">>)) THEN s
    ELSE MethItem(tokens, SkipWsComments(tokens, s))

\* lines 1174-1218
MethStart(tokens, s, a) ==
    IF a.exc # "none" THEN Raise(Inc(s), a.exc)
    ELSE Inc(MethLoop(tokens, [s EXCEPT !.idx = a.idx, !.attr_dict = a.dict]))
MethodsBlock(tokens, s) ==
    IF s.exc # "none" THEN s
    ELSE IF Off(tokens, s.idx) THEN Raise(s, "IndexError")
    ELSE IF tk_eq(tokens, s.idx, Tok("Keyword", <<"m", "e", "t", "h", "o", "d", "s">>))
    THEN MethStart(tokens, s, attributes(tokens, s.idx + 1, meth_attr_types))
    ELSE s

\* lines 1224-1226 and 1232-1234: everything up to the next `end` is passed over
EndFrom(tokens, idx) ==
    IF Off(tokens, idx) THEN idx
    ELSE SetMin({j \in idx..Len(tokens) :
                    j = Len(tokens) \/ tokens[j + 1] = Tok("Keyword", <<"e", "n", "d">>)})
IgnoredBlock(tokens, s, e) ==
    IF Off(tokens, e) THEN Raise(Adv(s, e), "IndexError") ELSE Adv(s, e + 1)
\* lines 1219-1226
EventsBlock(tokens, s) ==
    IF s.exc # "none" THEN s
    ELSE IF Off(tokens, s.idx) THEN Raise(s, "IndexError")
    ELSE IF tk_eq(tokens, s.idx, Tok("Keyword", <<"e", "v", "e", "n", "t", "s">>))
    THEN IgnoredBlock(tokens, s, EndFrom(tokens, s.idx + 1))
    ELSE s
\* lines 1227-1234
EnumerationBlock(tokens, s) ==
    IF s.exc # "none" THEN s
    ELSE IF Off(tokens, s.idx) THEN Raise(s, "IndexError")
    ELSE IF tk_eq(tokens, s.idx, Tok("Name", <<"e", "n", "u", "m", "e", "r", "a", "t", "i", "o", "n">>))
    THEN IgnoredBlock(tokens, s, EndFrom(tokens, s.idx + 1))
    ELSE s

\* lines 965-1234: the blocks of the class body, s.idx at the head of the
\* loop.  An iteration that changes nothing is repeated forever.
RECURSIVE BodyLoop(_, _)
BodyNext(tokens, s0, s) ==
    IF s.exc = "none" /\ s = s0 THEN Raise(s, "Hang") ELSE BodyLoop(tokens, s)
BodyBlocks(tokens, s0, s) ==
    BodyNext(tokens, s0,
             EnumerationBlock(tokens, EventsBlock(tokens,
                 MethodsBlock(tokens, PropertiesBlock(tokens, s)))))
BodyLoop(tokens, s) ==
    IF s.exc # "none" THEN s
    ELSE IF Off(tokens, s.idx) THEN Raise(s, "IndexError")
    ELSE IF tk_eq(tokens, s.idx, Tok("Keyword", <<"e", "n", "d">>)) THEN s
    ELSE BodyBlocks(tokens, s, SkipWsComments(tokens, s))

\* lines 1235-1240: an IndexError ends the parse with a warning and rem_tks
\* is the index reached; the return of line 1109 leaves rem_tks None; any
\* other exception leaves the constructor
ClassResult(s) ==
    [name |-> s.name, attrs |-> s.attrs, bases |-> s.bases, docstring |-> s.docstring,
     properties |-> s.properties, methods |-> s.methods,
     rem_tks |-> IF s.exc \in {"none", "IndexError"} THEN Some(s.idx) ELSE None,
     failed |-> s.exc = "IndexError",
     exc |-> IF s.exc \in {"none", "IndexError", "Return"} THEN "none" ELSE s.exc]

MatClass_init(name, tokens) ==
    ClassResult(BodyLoop(tokens, ClassDoc(tokens,
        SuperClasses(tokens, ClassName(tokens, NewClass(name))))))

(***************************************************************************)
(* SpecClass: MatClass is built from the token list of a class file with   *)
(* a properties block and a methods block.  The input is described by the  *)
(* declarations of the two blocks; the tokens follow the layout that the   *)
(* comment of lines 1459-1471 documents (blanks are Text tokens of one     *)
(* character, newlines are Whitespace tokens).                             *)
(***************************************************************************)
MaxProps == 2
MaxMethods == 2

ClsName == <<"A">>
tkSp == Tok("Text", <<" ">>)
Ind2 == <<tkSp, tkSp>>
Ind4 == <<tkSp, tkSp, tkSp, tkSp>>
tkFunction == Tok("Keyword", <<"f", "u", "n", "c", "t", "i", "o", "n">>)
tkFn(n) == Tok("Name.Function", n)

ClassHead == <<Tok("Keyword", <<"c", "l", "a", "s", "s", "d", "e", "f">>), tkSp, tkName(ClsName), tkNL>>

\* a property declaration: `x`, `x = 1;` or `x % d`
PropKinds == {"plain", "default", "doc"}
PropLine(kind, n) ==
    CASE kind = "plain" -> Ind4 \o <<tkName(n), tkNL>>
      [] kind = "default" ->
            Ind4 \o <<tkName(n), tkSp, tkEq, tkSp, Tok("Integer", <<"1">>), tkSemi, tkNL>>
      [] kind = "doc" -> Ind4 \o <<tkName(n), tkSp, tkComment, tkNL>>
PropNames == <<<<"x">>, <<"y">>, <<"z">>, <<"w">>>>
PropsBlock(kinds) ==
    Ind2 \o <<Tok("Keyword", <<"p", "r", "o", "p", "e", "r", "t", "i", "e", "s">>), tkNL>>
    \o Concat([i \in 1..Len(kinds) |-> PropLine(kinds[i], PropNames[i])])
    \o Ind2 \o <<tkEnd, tkNL>>

\* a method: `function n(obj) end`, or with a return value, a comment line
\* and an if statement in its body
MethKinds == {"plain", "full"}
MethText(kind, n) ==
    CASE kind = "plain" ->
            Ind4 \o <<tkFunction, tkBlank, tkFn(n), tkLP, tkText(<<"o", "b", "j">>), tkRP, tkNL>>
            \o Ind4 \o <<tkEnd, tkNL>>
      [] kind = "full" ->
            Ind4 \o <<tkFunction, tkBlank, tkText(<<"r", " ">>), tkEq, tkBlank, tkFn(n),
                      tkLP, tkText(<<"o", "b", "j">>), tkRP, tkNL>>
            \o Ind4 \o <<tkComment, tkNL>>
            \o Ind4 \o <<Tok("Keyword", <<"i", "f">>), tkSp, tkName(<<"a">>), tkNL>>
            \o Ind4 \o <<tkEnd, tkNL>>
            \o Ind4 \o <<tkEnd, tkNL>>
MethNames == <<<<"f">>, <<"g">>, <<"h">>, <<"k">>>>
Accessor == MethText("plain", <<"g", "e", "t", ".", "x">>)
Constructor == MethText("full", ClsName)
MethsBlock(in) ==
    Ind2 \o <<Tok("Keyword", <<"m", "e", "t", "h", "o", "d", "s">>), tkNL>>
    \o (IF in.ctor = "first" THEN Constructor ELSE <<>>)
    \o Concat([i \in 1..Len(in.meths) |-> MethText(in.meths[i], MethNames[i])])
    \o (IF in.accessor THEN Accessor ELSE <<>>)
    \o (IF in.ctor = "last" THEN Constructor ELSE <<>>)
    \o Ind2 \o <<tkEnd, tkNL>>

ClassTokens(in) == ClassHead \o PropsBlock(in.props) \o MethsBlock(in) \o <<tkEnd, tkNL>>

ClassInputs ==
    [props : SeqsUpTo(PropKinds, MaxProps), meths : SeqsUpTo(MethKinds, MaxMethods),
     ctor : {"none", "first", "last"}, accessor : BOOLEAN]

InitClass ==
    /\ cl_in \in ClassInputs
    /\ cl_res = NotRun
    /\ LitIdle
    /\ FnIdle
    /\ MfIdle
    /\ ImIdle
    /\ DsIdle
    /\ PpIdle

\* MatClass(name, modname, tokens) on the token list of the file
CallMatClass ==
    /\ cl_res = NotRun
    /\ cl_res' = MatClass_init(ClsName, ClassTokens(cl_in))
    /\ UNCHANGED <<cl_in, vars_lit, vars_fn, vars_mf, vars_im, vars_ds, vars_pp>>

NextClass == CallMatClass

SpecClass == InitClass /\ [][NextClass]_vars

\* the names of the entries of a mapping, in its order
EntryNames(d) == [i \in 1..Len(d) |-> d[i].name]

\* C9: a class body with N property declarations and M method declarations
\* (a constructor not counted) is parsed to exactly N property entries and M
\* method entries, in the order of the source.
C9_DeclaredEntriesInOrder ==
    cl_res # NotRun =>
        /\ cl_res.exc = "none"
        /\ EntryNames(cl_res.properties) = SubSeq(PropNames, 1, Len(cl_in.props))
        /\ EntryNames(cl_res.methods) = SubSeq(MethNames, 1, Len(cl_in.meths))

\* C10: after a class is parsed its methods mapping holds no method whose
\* name is the name of the class.
C10_NoConstructorInMethods ==
    cl_res # NotRun =>
        \A i \in 1..Len(cl_res.methods) : cl_res.methods[i].name # cl_res.name

(***************************************************************************)
(* SpecSuper: MatClass is built from the token list of                     *)
(*     classdef A < B1 & B2 & ... & Bk                                     *)
(*     end                                                                 *)
(* each base plain or qualified by a package, each `&` with or without a   *)
(* blank before and after it.                                              *)
(***************************************************************************)
MaxBases == 3

BaseKinds == {"plain", "dotted"}
SepKinds == {"both", "before", "after", "none"}
BaseNames == <<<<"B">>, <<"C">>, <<"D">>, <<"E">>>>

\* the declared name of a base, and its tokens
BaseText(kind, n) == IF kind = "dotted" THEN Pkg \o <<".">> \o n ELSE n
BaseToks(kind, n) ==
    IF kind = "dotted" THEN <<tkName(Pkg), Tok("Punctuation", <<".">>), tkName(n)>>
    ELSE <<tkName(n)>>

\* the `&` between two bases
SepToks(sep) ==
    (IF sep \in {"both", "before"} THEN <<tkSp>> ELSE <<>>)
    \o <<Tok("Operator", <<"&">>)>>
    \o (IF sep \in {"both", "after"} THEN <<tkSp>> ELSE <<>>)

SuperToks(in) ==
    Concat([i \in 1..Len(in.bases) |->
        (IF i = 1 THEN <<>> ELSE SepToks(in.seps[i - 1]))
        \o BaseToks(in.bases[i], BaseNames[i])])

SuperTokens(in) ==
    <<Tok("Keyword", <<"c", "l", "a", "s", "s", "d", "e", "f">>), tkSp, tkName(ClsName),
      tkSp, Tok("Operator", <<"<">>), tkSp>>
    \o SuperToks(in)
    \o <<tkNL, tkEnd, tkNL>>

DeclaredBases(in) == [i \in 1..Len(in.bases) |-> BaseText(in.bases[i], BaseNames[i])]

SuperInputs ==
    UNION {[bases : [1..k -> BaseKinds], seps : [1..(k - 1) -> SepKinds]] : k \in 1..MaxBases}

InitSuper ==
    /\ cl_in \in SuperInputs
    /\ cl_res = NotRun
    /\ LitIdle
    /\ FnIdle
    /\ MfIdle
    /\ ImIdle
    /\ DsIdle
    /\ PpIdle

\* MatClass(name, modname, tokens) on the token list of the file
CallMatClassSuper ==
    /\ cl_res = NotRun
    /\ cl_res' = MatClass_init(ClsName, SuperTokens(cl_in))
    /\ UNCHANGED <<cl_in, vars_lit, vars_fn, vars_mf, vars_im, vars_ds, vars_pp>>

NextSuper == CallMatClassSuper

SpecSuper == InitSuper /\ [][NextSuper]_vars

\* C11: the bases of the parsed class are the declared base names B1..Bk in
\* declared order, one entry for each, whatever the blanks around `&` and
\* whether or not a name is qualified by a package.
C11_BasesAsDeclared ==
    cl_res # NotRun =>
        /\ cl_res.exc = "none"
        /\ cl_res.bases = DeclaredBases(cl_in)

(***************************************************************************)
(* Specification SpecResolve: one build over a source tree                 *)
(*     basedir/A.m, basedir/B.m (or none), basedir/pkg.m (or none),        *)
(*     basedir/pkg/{app.m (or none), app.mlapp, .git/}                     *)
(* so that the folder pkg may stand beside a file pkg.m and the file       *)
(* pkg/app.m beside pkg/app.mlapp.  A.m is `classdef A < B`; B.m is a      *)
(* function, a class, or `classdef B < A`, which closes a cycle.  Names    *)
(* are imported, members are looked up and the bases of a class are        *)
(* resolved, for several lists of bases.                                   *)
(***************************************************************************)
SrcDerived(n, b) ==
    [label |-> "derived class",
     text |-> Classdef \o <<" ">> \o n \o <<" ", "<", " ">> \o b \o <<"\n", "e", "n", "d", "\n">>, toks |-> <<>>]

OptFile(path, srcs) ==
    {<<>>} \cup {path :> Stored(path, src) : src \in srcs}

ResolveFileSystems ==
    {(<<ClsName>> :> Stored(<<ClsName>>, SrcDerived(ClsName, NameB))) @@ fb @@ fp @@ fa :
        fb \in OptFile(<<NameB>>, {SrcGood(NameB), SrcClass(NameB), SrcDerived(NameB, ClsName)}),
        fp \in OptFile(<<Pkg>>, {SrcGood(Pkg)}),
        fa \in OptFile(<<Pkg, NameApp>>, {SrcGood(NameApp)})}

ResolveNames == {<<Pkg>>, <<Pkg, NameApp>>, <<Pkg, NameH>>, <<NameB>>, <<ClsName>>}
ResolveMembers == {NameApp, NameH}
BaseLists == {<<NameB>>, <<NameB, NameH>>, <<NameH, NameB>>, <<Pkg>>, <<NameApp, NameB, NameApp>>}

InitResolve ==
    /\ im_fs \in ResolveFileSystems
    /\ im_w = [modules |-> <<>>, parses |-> [p \in DOMAIN im_fs |-> 0]]
    /\ im_last = [op |-> "none", arg |-> <<>>, exc |-> "none", value |-> None]
    /\ LitIdle
    /\ FnIdle
    /\ MfIdle
    /\ ClIdle
    /\ DsIdle
    /\ PpIdle

ResolveMatlabify ==
    \E objname \in ResolveNames :
        Called("matlabify", objname, matlabify(im_w, im_fs, objname))

ResolveGetter ==
    \E package \in DOMAIN im_w.modules, name \in ResolveMembers :
        Called("getter", <<package, name>>,
               MatModule_getter(im_w, im_fs, package, name))

\* cls.__bases__ for a class cls whose bases are the list
ResolveBases ==
    \E bases \in BaseLists :
        Called("bases", bases, MatClass_bases(im_w, im_fs, bases))

NextResolve == ResolveMatlabify \/ ResolveGetter \/ ResolveBases

SpecResolve == InitResolve /\ [][NextResolve]_vars

\* what an entity was made from
MadeFrom(value) ==
    IF value = None THEN "none"
    ELSE IF value[1].kind = "MatModule" THEN "folder"
    ELSE IF value[1].kind = "MatApplication" THEN "mlapp"
    ELSE "m"

\* what the tree holds under a name: the folder before the .m file, the .m
\* file before the .mlapp file
Preferred(fs, objnames) ==
    IF \E o \in objnames : IsDir(o) THEN "folder"
    ELSE IF \E o \in objnames : o \in DOMAIN fs THEN "m"
    ELSE IF \E o \in objnames : o \in Mlapps THEN "mlapp"
    ELSE "none"

\* the places of the tree where a base of that name may stand
BasePlaces(b) == {Append(WalkRoots[i], b) : i \in 1..Len(WalkRoots)}

\* C12: a name resolves to the folder of that name when there is one, to
\* the .m file only when there is no folder, to the .mlapp file only when
\* there is neither, and to None when there is none of them; so it is for
\* MatObject.matlabify and for each base that MatClass.__bases__ resolves.
C12_FolderPreferred ==
    /\ (im_last.op = "matlabify" /\ im_last.exc = "none")
           => MadeFrom(im_last.value) = Preferred(im_fs, {im_last.arg})
    /\ (im_last.op = "bases" /\ im_last.exc = "none")
           => \A i \in 1..Len(im_last.value) :
                  MadeFrom(im_last.value[i][2])
                      = Preferred(im_fs, BasePlaces(im_last.value[i][1]))

\* the .m files of the tree that bear the name of a base
BaseFiles(fs, b) == BasePlaces(b) \cap DOMAIN fs

\* C13: resolving the bases of a class returns, without raising, a mapping
\* whose keys are the declared base names in declared order; a base with no
\* source file in the tree maps to None, a base with one maps to the entity
\* built from that file.
C13_BasesResolved ==
    im_last.op = "bases" =>
        /\ im_last.exc = "none"
        /\ [i \in 1..Len(im_last.value) |-> <<im_last.value[i][1]>>] = DictKeys(im_last.arg)
        /\ \A i \in 1..Len(im_last.value) :
              IF BaseFiles(im_fs, im_last.value[i][1]) = {}
              THEN im_last.value[i][2] = None
              ELSE /\ im_last.value[i][2] # None
                   /\ im_last.value[i][2][1].path \in BaseFiles(im_fs, im_last.value[i][1])

\* A derives from B and B derives from A
Cyclic(fs) ==
    /\ <<NameB>> \in DOMAIN fs
    /\ fs[<<NameB>>].src = "derived class"
    /\ fs[<<ClsName>>].src = "derived class"

\* the same tree with the cycle cut: B derives from nothing
CutCycle(fs) == [fs EXCEPT ![<<NameB>>] = Stored(<<NameB>>, SrcClass(NameB))]

\* C14: resolving the bases of a class that stands on a cycle of base
\* references ends, and ends in an error that the cycle causes: the call
\* raises, and what it raises is not what the same call raises on the tree
\* in which B derives from nothing.
C14_CycleIsFatal ==
    [][(im_last'.op = "bases" /\ Cyclic(im_fs) /\ NameB \in SeqSet(im_last'.arg))
          => /\ im_last'.exc # "none"
             /\ im_last'.exc # MatClass_bases(im_w, CutCycle(im_fs), im_last'.arg).exc]_vars

(***************************************************************************)
(* Specification SpecDocstring: tks_docstring on a block of at most        *)
(* MaxComments lines, the first a comment, each line with its indentation. *)
(* The function is handed the token of the first comment and the generator *)
(* that yields what follows it: for each further line the white space      *)
(* token that ends the line before and indents this one, then the token    *)
(* of the line; a newline ends the block.  The docstring it returns is     *)
(* then written back as a comment block and extracted again.               *)
(***************************************************************************)
MaxComments == 3

DocIndents == {<<>>, <<" ", " ">>}
CommentTexts == {<<"%", " ", "a", "b">>, <<"%", " ", " ", "c", "d">>, <<"%", " ", "a">>, <<"%">>}
CodeText == <<"x">>
DocLineKinds == [indent : DocIndents, text : CommentTexts \cup {CodeText}]
DocHeaders == {<<>>, <<"H">>}

DocBlocks ==
    {ls \in SeqsUpTo(DocLineKinds, MaxComments) : ls # <<>> /\ ls[1].text \in CommentTexts}
DocInputs == [lines : DocBlocks, header : DocHeaders]

LineTok(text) == IF text = CodeText THEN tkName(text) ELSE Tok("Comment", text)

\* the tokens that follow the first comment
DocRest(lines) ==
    Concat([i \in 1..(Len(lines) - 1) |->
               <<Tok("Whitespace", <<"\n">> \o lines[i + 1].indent), LineTok(lines[i + 1].text)>>])
    \o <<tkNL>>

InitDocstring ==
    /\ ds_in \in DocInputs
    /\ ds_res = NotRun
    /\ ds_again = NotRun
    /\ LitIdle
    /\ FnIdle
    /\ MfIdle
    /\ ImIdle
    /\ ClIdle
    /\ PpIdle

\* tks_docstring(tks, token, header)
CallTksDocstring ==
    /\ ds_res = NotRun
    /\ ds_res' = tks_docstring(DocRest(ds_in.lines), 1, LineTok(ds_in.lines[1].text),
                               ds_in.header)
    /\ UNCHANGED <<ds_in, ds_again, vars_lit, vars_fn, vars_mf, vars_im, vars_cl, vars_pp>>

\* the indentation the first extraction stripped (lines 417-421)
StrippedIndent(in) ==
    NumLeadingSpace(DocLoop(DocRest(in.lines), 1, LineTok(in.lines[1].text),
                            NoIndent, <<>>).lines, 0)

RECURSIVE Spaces(_)
Spaces(n) == IF n = 0 THEN <<>> ELSE <<" ">> \o Spaces(n - 1)

\* the comment block written from a docstring: the marker and the stripped
\* indentation before each of its lines, every line indented as the first
\* line of the block was
Rebuilt(docstring, n, indent) ==
    [i \in 1..Len(Split(docstring, "\n")) |->
        [indent |-> indent, text |-> <<"%">> \o Spaces(n) \o Split(docstring, "\n")[i]]]

RebuiltToks(lines) ==
    Concat([i \in 1..(Len(lines) - 1) |->
               <<Tok("Whitespace", <<"\n">> \o lines[i + 1].indent),
                 Tok("Comment", lines[i + 1].text)>>])
    \o <<tkNL>>

ExtractAgain(lines) ==
    tks_docstring(RebuiltToks(lines), 1, Tok("Comment", lines[1].text), <<>>)

\* tks_docstring on the block written from the docstring it returned
Reextract ==
    /\ ds_res # NotRun
    /\ ds_res.ret = "pair"
    /\ ds_in.header = <<>>
    /\ ds_again = NotRun
    /\ ds_again' = ExtractAgain(Rebuilt(ds_res.docstring, StrippedIndent(ds_in),
                                        ds_in.lines[1].indent))
    /\ UNCHANGED <<ds_in, ds_res, vars_lit, vars_fn, vars_mf, vars_im, vars_cl, vars_pp>>

NextDocstring == CallTksDocstring \/ Reextract

SpecDocstring == InitDocstring /\ [][NextDocstring]_vars

\* the number of lines of a docstring
DocLineCount(docstring) == Len(Split(docstring, "\n"))

\* the longest run of comment lines, from the first line on, that are all
\* indented as the first one is
SameIndentRun(lines) ==
    SetMax({k \in 1..Len(lines) :
               \A i \in 1..k : lines[i].text \in CommentTexts
                               /\ lines[i].indent = lines[1].indent})

\* C15: the docstring is made of the maximal run of consecutive comment
\* lines, from the given one on, that all have the indentation of the first;
\* the line that ends the run gives nothing to it.
C15_MaximalSameIndentRun ==
    (ds_res # NotRun /\ ds_res.ret = "pair") =>
        DocLineCount(ds_res.docstring) = SameIndentRun(ds_in.lines)

\* a comment without its marker and without trailing white space
CommentBody(text) == RStrip(Tail(text), WhiteChars)
LeadingBlanks(body) == SkipRun(body, 1, {" "}) - 1

\* the least indentation of the bodies that are not empty
CommonIndent(bodies) ==
    IF \A i \in 1..Len(bodies) : bodies[i] = <<>> THEN 0
    ELSE SetMin({LeadingBlanks(bodies[i]) : i \in {j \in 1..Len(bodies) : bodies[j] # <<>>}})

Dedent(bodies, n) ==
    [i \in 1..Len(bodies) |->
        IF bodies[i] = <<>> THEN <<>> ELSE SubSeq(bodies[i], n + 1, Len(bodies[i]))]

\* what the claim gives for the first k lines of a block
DedentedDoc(lines, k, header) ==
    (IF header # <<>> THEN header \o <<" ">> ELSE <<>>)
    \o Join(Dedent([i \in 1..k |-> CommentBody(lines[i].text)],
                   CommonIndent([i \in 1..k |-> CommentBody(lines[i].text)])),
            <<"\n">>)

\* C16: the docstring is the captured lines, each without its marker,
\* without the indentation common to them all and without trailing white
\* space, joined by newlines after the header; no other character of a
\* captured line is missing from it.
C16_MarkerAndCommonIndentOnly ==
    (ds_res # NotRun /\ ds_res.ret = "pair") =>
        ds_res.docstring
            = DedentedDoc(ds_in.lines, DocLineCount(ds_res.docstring), ds_in.header)

\* C17: extraction from the comment block written from an extracted
\* docstring returns that docstring.
C17_ExtractionIdempotent ==
    ds_again # NotRun =>
        /\ ds_again.ret = "pair"
        /\ ds_again.docstring = ds_res.docstring

(***************************************************************************)
(* Specification SpecPreprocess: the preprocessing of regex.py on a text   *)
(* of at most MaxPreLines lines, each taken from PreLines.  The text is    *)
(* preprocessed, the result is preprocessed again, and the signatures of   *)
(* the text itself are fixed.                                              *)
(***************************************************************************)
MaxPreLines == 3

LineFunctionOutG == <<"f", "u", "n", "c", "t", "i", "o", "n", " ", "y", " ", "=", " ", "g", "\n">>
LineFunctionOutParens == <<"f", "u", "n", "c", "t", "i", "o", "n", " ", "y", " ", "=", " ", "g", "(", ")", "\n">>
LineQuotedDots == <<"x", " ", "=", " ", "'", "a", ".", ".", ".", "b", ".", ".", ".", "c", "'", "\n">>
LineContinued == <<"y", " ", "=", " ", "1", " ", ".", ".", ".", "\n">>
PreLines ==
    {LineComment,
     LineEmpty,
     LineStatement,
     LineFunctionOut,
     LineFunctionOutArgs,
     LineFunctionOutG,
     LineFunctionOutParens,
     LineQuotedDots,
     LineContinued}

PreInputs == SeqsUpTo(PreLines, MaxPreLines)

InitPreprocess ==
    /\ pp_lines \in PreInputs
    /\ pp_once = None
    /\ pp_twice = None
    /\ pp_fix = None
    /\ LitIdle
    /\ FnIdle
    /\ MfIdle
    /\ ImIdle
    /\ ClIdle
    /\ DsIdle

\* code_preprocess(code) on the text of the file
CallCodePreprocess ==
    /\ pp_once = None
    /\ pp_once' = Some(code_preprocess(Concat(pp_lines)))
    /\ UNCHANGED <<pp_lines, pp_twice, pp_fix, vars_lit, vars_fn, vars_mf, vars_im, vars_cl,
                   vars_ds>>

\* code_preprocess on what code_preprocess returned
CallCodePreprocessAgain ==
    /\ pp_once # None
    /\ pp_twice = None
    /\ pp_twice' = Some(code_preprocess(pp_once[1]))
    /\ UNCHANGED <<pp_lines, pp_once, pp_fix, vars_lit, vars_fn, vars_mf, vars_im, vars_cl,
                   vars_ds>>

\* code_fix_function_signatures(code) on the text of the file
CallFixFunctionSignatures ==
    /\ pp_fix = None
    /\ pp_fix' = Some(code_fix_function_signatures(Concat(pp_lines)))
    /\ UNCHANGED <<pp_lines, pp_once, pp_twice, vars_lit, vars_fn, vars_mf, vars_im, vars_cl,
                   vars_ds>>

NextPreprocess ==
    CallCodePreprocess \/ CallCodePreprocessAgain \/ CallFixFunctionSignatures

SpecPreprocess == InitPreprocess /\ [][NextPreprocess]_vars

\* C18: preprocessing a preprocessed text changes nothing (two runs on one
\* text give one result, code_preprocess being a function of its argument).
C18_PreprocessIdempotent ==
    pp_twice # None => pp_twice = pp_once

\* a line as the claim has it after the fix: `()` directly after the name
\* of a signature with outputs and no parentheses, any other line as it is
SignatureFixed(line) ==
    IF line = LineFunctionOut THEN <<"f", "u", "n", "c", "t", "i", "o", "n", " ", "y", " ", "=", " ", "f", "(", ")", "\n">>
    ELSE IF line = LineFunctionOutG THEN LineFunctionOutParens
    ELSE line

\* C19: code_fix_function_signatures puts `()` once, directly after the
\* name, in every signature with outputs and no argument list, and changes
\* no other character; a signature with parentheses stays as it is.
C19_ParenthesesAfterNameOnly ==
    pp_fix # None =>
        pp_fix[1] = Concat([i \in 1..Len(pp_lines) |-> SignatureFixed(pp_lines[i])])

(***************************************************************************)
(* Specification SpecMembers: one build over a source tree                 *)
(*     basedir/pkg/{f.m, path.m (or none), app.mlapp, .git/}               *)
(* in which the folder pkg is imported and its members are listed, os      *)
(* giving the entries of the folder in any order.  path.m is a function    *)
(* file that bears the name of an attribute of MatModule.                  *)
(***************************************************************************)
MemberFileSystems ==
    {(<<Pkg, NameF>> :> Stored(<<Pkg, NameF>>, cf)) @@ fp :
        cf \in {SrcGood(NameF), SrcNoDoc(NameF)},
        fp \in OptFile(<<Pkg, NameApp>>, {SrcGood(NameApp)})
               \cup OptFile(<<Pkg, NamePath>>, {SrcGood(NamePath)})}

MemberObjNames == {<<Pkg>>, <<Pkg, NameF>>, <<Pkg, NamePath>>}
ListedNames == {NameF, NamePath, NameH}

InitMembers ==
    /\ im_fs \in MemberFileSystems
    /\ im_w = [modules |-> <<>>, parses |-> [p \in DOMAIN im_fs |-> 0]]
    /\ im_last = [op |-> "none", arg |-> <<>>, exc |-> "none", value |-> None]
    /\ LitIdle
    /\ FnIdle
    /\ MfIdle
    /\ ClIdle
    /\ DsIdle
    /\ PpIdle

MembersMatlabify ==
    \E objname \in MemberObjNames :
        Called("matlabify", objname, matlabify(im_w, im_fs, objname))

MembersGetter ==
    \E package \in DOMAIN im_w.modules, name \in ListedNames :
        Called("getter", <<package, name>>,
               MatModule_getter(im_w, im_fs, package, name))

MembersSafeGetmembers ==
    \E package \in DOMAIN im_w.modules :
        \E order \in Orders(Listing(im_fs, im_w.modules[package].path)) :
            Called("safe_getmembers", package,
                   safe_getmembers(im_w, im_fs, package, order))

NextMembers == MembersMatlabify \/ MembersGetter \/ MembersSafeGetmembers

SpecMembers == InitMembers /\ [][NextMembers]_vars

\* value is what the import of the folder or of the .m file at path gives
ImportedFrom(fs, path, value) ==
    \/ IsDir(path) /\ value.kind = "MatModule" /\ value.path = path
    \/ /\ ~IsDir(path)
       /\ path \in DOMAIN fs
       /\ value.kind \in {"MatFunction", "MatClass", "MatScript"}
       /\ value.path = path

\* C20: the members that safe_getmembers returns are sorted by name with no
\* name twice, none is a VCS folder, and each is the entity imported from
\* the folder or the .m file of its name in the folder of the module.
C20_MembersSortedAndImported ==
    (im_last.op = "safe_getmembers" /\ im_last.exc = "none") =>
        /\ \A i \in 1..(Len(im_last.value) - 1) :
              StrLess(im_last.value[i][1], im_last.value[i + 1][1])
        /\ \A i \in 1..Len(im_last.value) :
              /\ im_last.value[i][1] \notin VcsDirs
              /\ ImportedFrom(im_fs,
                     Append(im_w.modules[im_last.arg].path, im_last.value[i][1]),
                     im_last.value[i][2])

(***************************************************************************)
(* Specification SpecAttrs: the attribute list `(k1 [= v1], k2 [= v2])` of *)
(* a classdef, properties, methods or arguments block, of at most MaxAttrs *)
(* attributes, each with a key the block knows or one it does not, bare or *)
(* with a value.  MatClass.attributes reads the list of the first three    *)
(* from the token list of the file, attributeBlock.__init__ that of an     *)
(* arguments block from the token generator.                               *)
(***************************************************************************)
MaxAttrs == 2

AttrBlockKinds == {"class", "properties", "methods", "arguments"}
AttrKeys == {"known", "unknown"}
AttrForms == {"bare", "true", "false", "enum"}

NameHidden == <<"H", "i", "d", "d", "e", "n">>
NameFoo == <<"F", "o", "o">>
NameOutput == <<"O", "u", "t", "p", "u", "t">>

\* the attribute names of a kind of block
AttrTypesOf(kind) ==
    CASE kind = "class" -> cls_attr_types
      [] kind = "properties" -> prop_attr_types
      [] kind = "methods" -> meth_attr_types
      [] kind = "arguments" -> ArgBlockAttributeTypes

AttrKeyName(kind, key) ==
    IF key = "unknown" THEN NameFoo
    ELSE IF kind = "arguments" THEN NameOutput ELSE NameHidden

\* the tokens of one attribute, sp the token of a blank
AttrItemToks(name, form, sp) ==
    <<tkName(name)>>
    \o (CASE form = "bare" -> <<>>
          [] form = "true" -> <<sp, tkEq, sp, tkName(<<"t", "r", "u", "e">>)>>
          [] form = "false" -> <<sp, tkEq, sp, tkName(<<"f", "a", "l", "s", "e">>)>>
          [] form = "enum" -> <<sp, tkEq, sp, tkName(<<"p", "r", "i", "v", "a", "t", "e">>)>>)

AttrListToks(in, sp) ==
    <<sp, tkLP>>
    \o Concat([i \in 1..Len(in.attrs) |->
                  (IF i = 1 THEN <<>> ELSE <<tkComma, sp>>)
                  \o AttrItemToks(AttrKeyName(in.kind, in.attrs[i].key), in.attrs[i].form, sp)])
    \o <<tkRP, sp, tkName(ClsName), tkNL>>

AttrInputs ==
    [kind : AttrBlockKinds, attrs : SeqsUpTo([key : AttrKeys, form : AttrForms], MaxAttrs)]

InitAttrs ==
    /\ cl_in \in AttrInputs
    /\ cl_res = NotRun
    /\ LitIdle
    /\ FnIdle
    /\ MfIdle
    /\ ImIdle
    /\ DsIdle
    /\ PpIdle

\* self.attributes(idx, attr_types) on the tokens after the keyword
CallAttributes ==
    /\ cl_res = NotRun
    /\ cl_in.kind # "arguments"
    /\ cl_res' = attributes(AttrListToks(cl_in, tkSp), 0, AttrTypesOf(cl_in.kind))
    /\ UNCHANGED <<cl_in, vars_lit, vars_fn, vars_mf, vars_im, vars_ds, vars_pp>>

\* attributeBlock.__init__(tks) on the generator after `arguments`
CallAttributeBlock ==
    /\ cl_res = NotRun
    /\ cl_in.kind = "arguments"
    /\ cl_res' = [exc |-> "none"]
                 @@ attributeBlock_init(AttrListToks(cl_in, tkBlank), 1, ArgBlockAttributeTypes)
    /\ UNCHANGED <<cl_in, vars_lit, vars_fn, vars_mf, vars_im, vars_ds, vars_pp>>

NextAttrs == CallAttributes \/ CallAttributeBlock

SpecAttrs == InitAttrs /\ [][NextAttrs]_vars

\* the keys of the attribute mapping that was built
AttrResultKeys(kind, r) ==
    IF kind = "arguments" THEN r.attributes
    ELSE {r.dict[i].name : i \in 1..Len(r.dict)}

\* the known keys written in the list
KnownWritten(in) ==
    {AttrKeyName(in.kind, in.attrs[i].key) :
        i \in {j \in 1..Len(in.attrs) : in.attrs[j].key = "known"}}

\* C21: the parse of an attribute list returns, and the keys of the mapping
\* it built are known attribute names of the block: an unknown key gives no
\* entry, with or without `= value`, and the known keys written before and
\* after it are read.
C21_OnlyKnownKeys ==
    cl_res # NotRun =>
        /\ cl_res.exc = "none"
        /\ AttrResultKeys(cl_in.kind, cl_res) \subseteq AttrTypesOf(cl_in.kind)
        /\ KnownWritten(cl_in) \subseteq AttrResultKeys(cl_in.kind, cl_res)

(***************************************************************************)
(* Specification SpecPropLine: propertyLine.parse_tokens on the tokens     *)
(* that follow the name of the declaration                                 *)
(*     a [(dims)] [double] [{validators}] [= 0] [% d]                      *)
(* each part present or absent, the validator list closed or left open;    *)
(* the line `b double` and the `end` of the block follow.                  *)
(***************************************************************************)
DeclSizes == {"none", "1,1", "2"}
DeclTypes == {"none", "double"}
DeclValidators == {"none", "one", "two", "open"}
DeclDefaults == {"none", "0"}
DeclDocs == {"none", "direct"}

NameDouble == <<"d", "o", "u", "b", "l", "e">>
NameV == <<"m", "u", "s", "t", "B", "e", "V">>
NameW == <<"m", "u", "s", "t", "B", "e", "W">>

DeclToks(d) ==
    (CASE d.size = "none" -> <<>>
       [] d.size = "1,1" -> <<tkBlank, tkLP, tkInt(<<"1">>), tkComma, tkInt(<<"1">>), tkRP>>
       [] d.size = "2" -> <<tkBlank, tkLP, tkInt(<<"2">>), tkRP>>)
    \o (IF d.type = "none" THEN <<>> ELSE <<tkBlank, tkName(NameDouble)>>)
    \o (CASE d.vld = "none" -> <<>>
          [] d.vld = "one" -> <<tkBlank, tkLB, tkName(NameV), tkRB>>
          [] d.vld = "two" -> <<tkBlank, tkLB, tkName(NameV), tkComma, tkBlank, tkName(NameW), tkRB>>
          [] d.vld = "open" -> <<tkBlank, tkLB, tkName(NameV)>>)
    \o (IF d.dflt = "none" THEN <<>> ELSE <<tkBlank, tkEq, tkBlank, tkInt(<<"0">>)>>)
    \o (IF d.doc = "none" THEN <<>> ELSE <<tkBlank, tkComment>>)

\* the tokens after the name a, up to the end of the file
DeclRest(d) ==
    DeclToks(d)
    \o <<tkNLIndent, tkName(<<"b">>), tkBlank, tkName(NameDouble), tkNLIndent, tkEnd, tkNL>>

DeclInputs ==
    [size : DeclSizes, type : DeclTypes, vld : DeclValidators, dflt : DeclDefaults,
     doc : DeclDocs]

InitPropLine ==
    /\ fn_tks \in DeclInputs
    /\ fn_res = NotRun
    /\ LitIdle
    /\ MfIdle
    /\ ImIdle
    /\ ClIdle
    /\ DsIdle
    /\ PpIdle

\* argumentLine('a', attrs).parse_tokens(tks)
CallParseTokens ==
    /\ fn_res = NotRun
    /\ fn_res' = propertyLine_parse_tokens(<<"a">>, DeclRest(fn_tks), 1)
    /\ UNCHANGED <<fn_tks, vars_lit, vars_mf, vars_im, vars_cl, vars_ds, vars_pp>>

NextPropLine == CallParseTokens

SpecPropLine == InitPropLine /\ [][NextPropLine]_vars

\* the parts of a declaration as they are written
DeclSize(d) ==
    CASE d.size = "none" -> None
      [] d.size = "1,1" -> Some(<<1, 1>>)
      [] d.size = "2" -> Some(<<2>>)
DeclType(d) == IF d.type = "none" THEN None ELSE Some(NameDouble)
DeclVldtrs(d) ==
    CASE d.vld = "none" -> None
      [] d.vld = "one" -> Some(<<NameV>>)
      [] d.vld = "two" -> Some(<<NameV, NameW>>)
      [] d.vld = "open" -> None
DeclDefault(d) == IF d.dflt = "none" THEN None ELSE Some(<<"0">>)

\* C22: parse_tokens records the size, the type, the validators and the
\* default of a declaration as they are written, None for a part that is
\* absent, whichever of the other parts are there.
C22_PartsAsWritten ==
    (fn_res # NotRun /\ fn_tks.vld # "open") =>
        /\ fn_res.exc = "none"
        /\ fn_res.size = DeclSize(fn_tks)
        /\ fn_res.type = DeclType(fn_tks)
        /\ fn_res.vldtrs = DeclVldtrs(fn_tks)
        /\ fn_res.default = DeclDefault(fn_tks)

\* C23: a declaration whose validator list is not closed fails with
\* IndexError, before any token of the lines that follow is read.
C23_OpenValidatorsFail ==
    (fn_res # NotRun /\ fn_tks.vld = "open") =>
        /\ fn_res.exc = "IndexError"
        /\ fn_res.pos <= Len(DeclToks(fn_tks)) + 2

(***************************************************************************)
(* Specification SpecBody: MatClass is built from the token list of        *)
(*     classdef A                                                          *)
(*       item ... item                                                     *)
(*     end                                                                 *)
(* with at most MaxBodyItems items, each a properties block, a methods     *)
(* block, an events block, a comment, a properties block whose attribute   *)
(* list holds an operator (`properties (~Hidden)`), or a statement `x`     *)
(* that belongs to no block.                                               *)
(***************************************************************************)
MaxBodyItems == 3

BodyItemKinds == {"properties", "methods", "events", "comment", "operator", "statement"}

tkKw(v) == Tok("Keyword", v)

BodyItemToks(kind) ==
    CASE kind = "properties" -> PropsBlock(<<"plain">>)
      [] kind = "methods" ->
             Ind2 \o <<tkKw(<<"m", "e", "t", "h", "o", "d", "s">>), tkNL>> \o MethText("full", MethNames[1])
             \o Ind2 \o <<tkEnd, tkNL>>
      [] kind = "events" ->
             Ind2 \o <<tkKw(<<"e", "v", "e", "n", "t", "s">>), tkNL>> \o Ind4 \o <<tkName(<<"x">>), tkNL>>
             \o Ind2 \o <<tkEnd, tkNL>>
      [] kind = "comment" -> Ind2 \o <<Tok("Comment", <<"%", " ", "d">>), tkNL>>
      [] kind = "operator" ->
             Ind2 \o <<tkKw(<<"p", "r", "o", "p", "e", "r", "t", "i", "e", "s">>), tkSp, tkLP, Tok("Operator", <<"~">>),
                       tkName(NameHidden), tkRP, tkNL>>
             \o Ind2 \o <<tkEnd, tkNL>>
      [] kind = "statement" -> Ind2 \o <<tkName(<<"x">>), tkNL>>

BodyTokens(items) ==
    ClassHead \o Concat([i \in 1..Len(items) |-> BodyItemToks(items[i])]) \o <<tkEnd, tkNL>>

BodyInputs == SeqsUpTo(BodyItemKinds, MaxBodyItems)

InitBody ==
    /\ cl_in \in BodyInputs
    /\ cl_res = NotRun
    /\ LitIdle
    /\ FnIdle
    /\ MfIdle
    /\ ImIdle
    /\ DsIdle
    /\ PpIdle

\* MatClass(name, modname, tokens) on the token list of the file
CallMatClassBody ==
    /\ cl_res = NotRun
    /\ cl_res' = MatClass_init(ClsName, BodyTokens(cl_in))
    /\ UNCHANGED <<cl_in, vars_lit, vars_fn, vars_mf, vars_im, vars_ds, vars_pp>>

NextBody == CallMatClassBody

SpecBody == InitBody /\ [][NextBody]_vars

\* C24: the constructor of MatClass ends on every token list, as finished
\* or as failed: no loop of it looks at one token again and again.
C24_ParseTerminates ==
    cl_res # NotRun => cl_res.exc # "Hang"

(***************************************************************************)
(* methodArgumentsBlock.parse_tokens, lines 603-620.  `continue` at line   *)
(* 609 goes back to the loop test with the token in hand: the name that    *)
(* cleared first_obj_arg is looked at again.                               *)
(***************************************************************************)
RECURSIVE MethodArgLinesLoop(_, _, _, _, _, _)
MethodArgLineGot(tks, arg_list, arguments, r) ==
    IF r.exc # "none"
    THEN [exc |-> r.exc, arguments |-> arguments, pos |-> r.pos]
    ELSE MethodArgLinesLoop(tks, r.pos, r.tok, arg_list, Append(arguments, LineEntry(r)), FALSE)

MethodArgLinesFrom(tks, t, arg_list, arguments, first_obj_arg) ==
    MethodArgLinesLoop(tks, t.pos, t.tok, arg_list, arguments, first_obj_arg)

MethodArgLinesLoop(tks, pos, token, arg_list, arguments, first_obj_arg) ==
    IF token = NoToken \/ token = Tok("Keyword", <<"e", "n", "d">>)
    THEN [exc |-> "none", arguments |-> arguments, pos |-> pos]
    ELSE IF token.k = "Name"
    THEN IF first_obj_arg
         THEN MethodArgLinesLoop(tks, pos, token, arg_list, arguments, FALSE)
         ELSE IF InSeq(token.v, arg_list)
         THEN MethodArgLineGot(tks, arg_list, arguments,
                               propertyLine_parse_tokens(token.v, tks, pos))
         ELSE [exc |-> "IndexError", arguments |-> arguments, pos |-> pos]
    ELSE MethodArgLinesFrom(tks, tks_next(tks, pos, TRUE, TRUE, TRUE), arg_list, arguments,
                            first_obj_arg)

methodArgumentsBlock_parse_tokens(tks, pos, arg_list) ==
    MethodArgLinesFrom(tks, tks_next(tks, pos, TRUE, TRUE, TRUE), arg_list, <<>>, TRUE)

MethodBlockParse(tks, ab, args, retv) ==
    BlockResult(BlockIsInput(ab.attributes),
                methodArgumentsBlock_parse_tokens(
                    tks, ab.pos,
                    IF BlockIsInput(ab.attributes) THEN args ELSE retv))

\* methodArgumentsBlock(tks, args, retv): __init__ is the inherited one,
\* lines 562-572
methodArgumentsBlock_init(tks, pos, args, retv) ==
    MethodBlockParse(tks, attributeBlock_init(tks, pos, ArgBlockAttributeTypes), args, retv)

(***************************************************************************)
(* Specification SpecMethodArgs: the arguments block of a method           *)
(*     function f(obj, a, b)                                               *)
(* whose first line names the object (obj, or self, a name that is not in  *)
(* the argument list) and whose further lines, at most MaxArgLines, name   *)
(* a, b or z, bare or with size, type and default.                         *)
(***************************************************************************)
MaxArgLines == 2

NameObj == <<"o", "b", "j">>
NameSelf == <<"s", "e", "l", "f">>
MethodArgs == <<NameObj, <<"a">>, <<"b">>>>
FirstNames == {NameObj, NameSelf}
LaterNames == {<<"a">>, <<"b">>, <<"z">>}
ArgLineForms == {"bare", "full"}

ArgLineToks(l) == ArgLine(l.name, IF l.form = "full" THEN SizeTypeDefault ELSE <<>>)

\* the tokens after `arguments`
ArgBlockRest(lines) ==
    <<tkNLIndent>> \o Concat([i \in 1..Len(lines) |-> ArgLineToks(lines[i])])
    \o <<tkEnd, tkNL>>

MethodArgInputs ==
    [first : FirstNames, later : SeqsUpTo([name : LaterNames, form : ArgLineForms], MaxArgLines)]

MethodBlockLines(in) == <<[name |-> in.first, form |-> "bare"]>> \o in.later

InitMethodArgs ==
    /\ fn_tks \in MethodArgInputs
    /\ fn_res = NotRun
    /\ LitIdle
    /\ MfIdle
    /\ ImIdle
    /\ ClIdle
    /\ DsIdle
    /\ PpIdle

\* methodArgumentsBlock(tks, args, retv)
CallMethodArgumentsBlock ==
    /\ fn_res = NotRun
    /\ fn_res' = methodArgumentsBlock_init(ArgBlockRest(MethodBlockLines(fn_tks)), 1,
                                           MethodArgs, <<>>)
    /\ UNCHANGED <<fn_tks, vars_lit, vars_mf, vars_im, vars_cl, vars_ds, vars_pp>>

NextMethodArgs == CallMethodArgumentsBlock

SpecMethodArgs == InitMethodArgs /\ [][NextMethodArgs]_vars

\* what a function's arguments block gives for the lines after the first
LaterAsFunction(in) ==
    functionArgumentsBlock_init(ArgBlockRest(in.later), 1, MethodArgs, <<>>)

\* C25: the first name of a method's arguments block is passed over, neither
\* recorded nor checked against the argument list; the block gives what a
\* function's arguments block gives for the lines after it.
C25_ObjectArgumentSkipped ==
    fn_res # NotRun =>
        /\ fn_res.exc = LaterAsFunction(fn_tks).exc
        /\ fn_res.arguments = LaterAsFunction(fn_tks).arguments
        /\ fn_res.type = LaterAsFunction(fn_tks).type

(***************************************************************************)
(* MatModuleAnalyzer.for_folder and for_module, lines 1753-1776 (the copy  *)
(* in mat_documenters.py, lines 67-90, reads the same).  w.cache is the    *)
(* class attribute cache, by key ('module', modname) or ('folder',         *)
(* dirname); w.made counts the analyzers and errors constructed, which     *)
(* tells the objects apart.                                                *)
(***************************************************************************)
NewAnalyzer(id, modname, srcname) ==
    [kind |-> "analyzer", id |-> id, modname |-> modname, srcname |-> srcname]
NewMatcodeError(id, modname) ==
    [kind |-> "error", id |-> id, modname |-> modname, srcname |-> <<>>]

CachePut(cache, key, entry) ==
    [k \in DOMAIN cache \cup {key} |-> IF k = key THEN entry ELSE cache[k]]

\* lines 1754-1759
for_folder(w, dirname, modname) ==
    IF <<"folder", dirname>> \in DOMAIN w.cache
    THEN Ret(w, "none", Some(w.cache[<<"folder", dirname>>]))
    ELSE Ret([w EXCEPT !.cache = CachePut(@, <<"folder", dirname>>,
                                          NewAnalyzer(w.made + 1, modname, dirname)),
                       !.made = @ + 1],
             "none", Some(NewAnalyzer(w.made + 1, modname, dirname)))

\* lines 1763-1766: the entry that is there is returned, or raised
ForModuleCached(w, entry) ==
    IF entry.kind = "error" THEN Ret(w, "MatcodeError", Some(entry))
    ELSE Ret(w, "none", Some(entry))

\* lines 1775-1776, r being what for_folder returned
ForModuleGot(modname, r) ==
    Ret([r.w EXCEPT !.cache = CachePut(@, <<"module", modname>>, r.value[1])],
        "none", r.value)

\* lines 1772-1774
ForModuleError(w, modname) ==
    Ret([w EXCEPT !.cache = CachePut(@, <<"module", modname>>,
                                     NewMatcodeError(w.made + 1, modname)),
                  !.made = @ + 1],
        "MatcodeError", Some(NewMatcodeError(w.made + 1, modname)))

\* lines 1767-1776
ForModuleNew(w, modname) ==
    IF modname \in DOMAIN w.modules
    THEN ForModuleGot(modname, for_folder(w, w.modules[modname].path, modname))
    ELSE ForModuleError(w, modname)

\* for_module that tries again when the name was cached as an error and the
\* module has been registered since
for_module_retry(w, modname) ==
    IF /\ <<"module", modname>> \in DOMAIN w.cache
       /\ ~(w.cache[<<"module", modname>>].kind = "error" /\ modname \in DOMAIN w.modules)
    THEN ForModuleCached(w, w.cache[<<"module", modname>>])
    ELSE ForModuleNew(w, modname)

\* lines 1761-1776
for_module(w, modname) ==
    IF <<"module", modname>> \in DOMAIN w.cache
    THEN ForModuleCached(w, w.cache[<<"module", modname>>])
    ELSE ForModuleNew(w, modname)

(***************************************************************************)
(* Specification SpecAnalyzer: one build over the tree basedir/pkg/f.m in  *)
(* which names are imported, members are looked up and analyzers are       *)
(* asked for, by module name and by folder, in any order.                  *)
(***************************************************************************)
AnalyzerFileSystems ==
    {<<Pkg, NameF>> :> Stored(<<Pkg, NameF>>, src) : src \in {SrcGood(NameF), SrcClass(NameF)}}
AnalyzerModNames == {<<Pkg>>, <<Pkg, NameF>>, <<NameH>>}
AnalyzerDirNames == {<<Pkg>>, <<NameH>>}

InitAnalyzer ==
    /\ im_fs \in AnalyzerFileSystems
    /\ im_w = [modules |-> <<>>, parses |-> [p \in DOMAIN im_fs |-> 0],
               cache |-> <<>>, made |-> 0]
    /\ im_last = [op |-> "none", arg |-> <<>>, exc |-> "none", value |-> None]
    /\ LitIdle
    /\ FnIdle
    /\ MfIdle
    /\ ClIdle
    /\ DsIdle
    /\ PpIdle

AnalyzerMatlabify ==
    \E objname \in AnalyzerDirNames :
        Called("matlabify", objname, matlabify(im_w, im_fs, objname))

AnalyzerGetter ==
    \E package \in DOMAIN im_w.modules :
        Called("getter", <<package, NameF>>,
               MatModule_getter(im_w, im_fs, package, NameF))

ForModule ==
    \E modname \in AnalyzerModNames :
        Called("for_module", modname, for_module(im_w, modname))

ForFolder ==
    \E dirname \in AnalyzerDirNames, modname \in AnalyzerModNames :
        Called("for_folder", <<dirname, modname>>, for_folder(im_w, dirname, modname))

NextAnalyzer == AnalyzerMatlabify \/ AnalyzerGetter \/ ForModule \/ ForFolder

SpecAnalyzer == InitAnalyzer /\ [][NextAnalyzer]_vars

\* the module registered under a name is the one that was registered
SameModule(m, n) == m.path = n.path /\ m.package = n.package

\* what a call for a key that is in the cache must give: the analyzer that
\* is there, or the error that is there, raised
GivesEntry(last, entry) ==
    /\ last.value = Some(entry)
    /\ last.exc = IF entry.kind = "error" THEN "MatcodeError" ELSE "none"

\* C26: no step of a build removes or replaces an entry of modules or of
\* the analyzer cache; a for_module or for_folder call for a key that is in
\* the cache returns the analyzer that is there, and a for_module call for
\* a name cached as an error raises that error, registered module or not.
C26_RegistryAndCacheAppendOnly ==
    [][/\ \A k \in DOMAIN im_w.modules :
             k \in DOMAIN im_w'.modules /\ SameModule(im_w.modules[k], im_w'.modules[k])
       /\ \A k \in DOMAIN im_w.cache :
             k \in DOMAIN im_w'.cache /\ im_w'.cache[k] = im_w.cache[k]
       /\ (im_last'.op = "for_module" /\ <<"module", im_last'.arg>> \in DOMAIN im_w.cache)
            => GivesEntry(im_last', im_w.cache[<<"module", im_last'.arg>>])
       /\ (im_last'.op = "for_folder" /\ <<"folder", im_last'.arg[1]>> \in DOMAIN im_w.cache)
            => GivesEntry(im_last', im_w.cache[<<"folder", im_last'.arg[1]>>])]_vars

\* a for_module call raised the cached error for a module that is registered
C26_ErrorRaisedAfterRegistration ==
    /\ im_last.op = "for_module"
    /\ im_last.exc = "MatcodeError"
    /\ im_last.arg \in DOMAIN im_w.modules

\* the run is that of `function y = f()` with nothing after the docstring
\* or with an arguments block for the output y
EmptyArgsRun ==
    /\ fn_res # NotRun
    /\ fn_tks.sig.toks = SigEmptyArgs
    /\ fn_tks.block.written \in {<<>>, <<<<"y">>>>}

\* C27: a signature with an empty pair of parentheses gives a function with
\* an empty input list, and the parse goes on: the docstring that follows
\* the signature is read (two comment lines give a docstring of two lines),
\* and so is the arguments block after it.
C27_EmptyParenthesesParsed ==
    EmptyArgsRun =>
        /\ fn_res.exc = "none"
        /\ fn_res.args = <<>>
        /\ fn_tks.ndoc > 1 => fn_res.docstring # <<>>
        /\ (fn_tks.ndoc > 0 /\ fn_tks.block.written = <<<<"y">>>>)
               => ArgNames(fn_res.retv_va) = <<<<"y">>>>

(***************************************************************************)
(* tks_docstring from a token that is no comment, and the comment block    *)
(* whose lines are all empty.                                              *)
(***************************************************************************)
\* a function whose signature is complete and is followed by code at once
NoCommentRun ==
    /\ fn_res # NotRun
    /\ fn_tks.sig \in SigsWellFormed
    /\ fn_tks.ndoc = 0
    /\ fn_tks.block.written = <<>>

\* what tks_docstring gives MatFunction for the token after the signature
\* (lines 726-727): the token of the first line of code
DocAfterSignature ==
    tks_docstring(fn_tks.toks, Len(fn_tks.sig.toks) + 2,
                  fn_tks.toks[Len(fn_tks.sig.toks) + 1], <<>>)

\* C28: from a token that is no comment tks_docstring returns the pair of an
\* empty docstring and that very token, so a function whose signature is
\* followed by no comment is built, with the docstring ''.
C28_NoCommentGivesEmptyDocstring ==
    NoCommentRun =>
        /\ DocAfterSignature.ret = "pair"
        /\ DocAfterSignature.docstring = <<>>
        /\ DocAfterSignature.tok = fn_tks.toks[Len(fn_tks.sig.toks) + 1]
        /\ fn_res.exc = "none"
        /\ fn_res.docstring = <<>>

\* the lines tks_docstring captured, as the loop of lines 403-413 leaves them
CapturedLines ==
    DocLoop(DocRest(ds_in.lines), 1, LineTok(ds_in.lines[1].text), NoIndent, <<>>).lines

\* C29: the computation of the common indentation ends for every captured
\* block, also when every line of it is empty without its marker, and it
\* strips no more blanks than the shortest non-empty line has characters.
C29_CommonIndentTerminates ==
    ds_res # NotRun =>
        /\ ds_res.exc # "Hang"
        /\ ds_res.ret = "pair" =>
              \A i \in 1..Len(CapturedLines) :
                  CapturedLines[i] # <<>> => StrippedIndent(ds_in) <= Len(CapturedLines[i])

(***************************************************************************)
(* Specification SpecMethod: MatMethod is built from the tokens of a       *)
(* methods block from a `function` keyword on, as MatClass hands them over *)
(* at line 1210, and reset_tokens is called on it (line 1215).  The method *)
(* is a signature, comment lines, at most MaxStmts statements, and the     *)
(* `end` that closes it; the `end` of the methods block follows.           *)
(***************************************************************************)
MaxStmts == 2

\* MatMethod.reset_tokens, lines 1631-1636, on the method r that
\* MatMethod_init built: len(None) fails when no token was left over
reset_tokens(r) ==
    IF r.meth.rem_tks = None THEN [exc |-> "TypeError", len_meth |-> 0]
    ELSE [exc |-> "none", len_meth |-> r.len - r.meth.rem_tks[1]]

MethSigKinds == {"plain", "return", "bare"}
MethSig(kind) ==
    CASE kind = "plain" -> <<tkFunction, tkBlank, tkFn(NameF), tkLP, tkText(<<"o", "b", "j">>), tkRP, tkNL>>
      [] kind = "return" -> <<tkFunction, tkBlank, tkText(<<"r", " ">>), tkEq, tkBlank, tkFn(NameF),
                              tkLP, tkText(<<"o", "b", "j">>), tkRP, tkNL>>
      [] kind = "bare" -> <<tkFunction, tkBlank, tkFn(NameF), tkNL>>

\* the statements of a method body: `a`, a block opened by a keyword and
\* closed by its `end`, `end` as an index in parentheses or in braces, a
\* nested function, and an arguments block whose first word is lexed as a
\* keyword (line 645) or as a builtin name (line 731)
StmtKinds == {"code", "if", "for", "while", "index", "cell", "function",
              "arguments", "builtin"}
KwBlock(kw) == Ind4 \o <<kw, tkSp, tkNameA, tkNL>> \o Ind4 \o <<tkEnd, tkNL>>
StmtToks(kind) ==
    CASE kind = "code" -> Ind4 \o <<tkNameA, tkNL>>
      [] kind = "if" -> KwBlock(tkKw(<<"i", "f">>))
      [] kind = "for" -> KwBlock(tkKw(<<"f", "o", "r">>))
      [] kind = "while" -> KwBlock(tkKw(<<"w", "h", "i", "l", "e">>))
      [] kind = "index" -> Ind4 \o <<tkNameA, tkLP, tkEnd, tkRP, tkNL>>
      [] kind = "cell" -> Ind4 \o <<tkNameA, Tok("Punctuation", <<"{">>), tkEnd,
                                    Tok("Punctuation", <<"}">>), tkNL>>
      [] kind = "function" -> Ind4 \o <<tkFunction, tkBlank, tkFn(<<"g">>), tkNL>>
                              \o Ind4 \o <<tkEnd, tkNL>>
      [] kind = "arguments" -> KwBlock(tkKw(<<"a", "r", "g", "u", "m", "e", "n", "t", "s">>))
      [] kind = "builtin" -> KwBlock(tkArguments)

MethodInputs ==
    [sig : MethSigKinds, ndoc : 0..1, stmts : SeqsUpTo(StmtKinds, MaxStmts)]

\* the method from its `function` keyword through its closing `end`
MethodText(in) ==
    MethSig(in.sig) \o (IF in.ndoc = 1 THEN Ind4 \o <<tkComment, tkNL>> ELSE <<>>)
    \o Concat([i \in 1..Len(in.stmts) |-> StmtToks(in.stmts[i])])
    \o Ind4 \o <<tkEnd>>
\* self.tokens[idx:] of line 1210: the method and the rest of the file
MethodTokens(in) == MethodText(in) \o <<tkNL>> \o Ind2 \o <<tkEnd, tkNL, tkEnd, tkNL>>

InitMethod ==
    /\ cl_in \in MethodInputs
    /\ cl_res = NotRun
    /\ LitIdle
    /\ FnIdle
    /\ MfIdle
    /\ ImIdle
    /\ DsIdle
    /\ PpIdle

\* meth = MatMethod(self.module, self.tokens[idx:], self, attr_dict) and
\* meth.reset_tokens(), lines 1210-1215
CallMatMethod ==
    /\ cl_res = NotRun
    /\ cl_res' = reset_tokens(MatMethod_init(MethodTokens(cl_in), <<>>))
    /\ UNCHANGED <<cl_in, vars_lit, vars_fn, vars_mf, vars_im, vars_ds, vars_pp>>

NextMethod == CallMatMethod

SpecMethod == InitMethod /\ [][NextMethod]_vars

\* C30: reset_tokens returns the number of tokens from the `function`
\* keyword through the `end` that closes the method, whatever blocks, nested
\* functions and `end` indices the body holds: at least 1 and at most the
\* tokens handed over, so the index of MatClass resumes right after that
\* `end`.
C30_MethodTokensThroughClosingEnd ==
    cl_res # NotRun =>
        /\ cl_res.exc = "none"
        /\ cl_res.len_meth = Len(MethodText(cl_in))
        /\ cl_res.len_meth >= 1
        /\ cl_res.len_meth <= Len(MethodTokens(cl_in))

====
